---- MODULE Spec2Model ----
(***************************************************************************)
(* Model of the gohighlevel-go client (client.go): the token store guarded *)
(* by tokenMutex, the token-endpoint refresh, and doRequest/executeRequest *)
(* with the 401-triggered refresh and single retry.                        *)
(*                                                                         *)
(* Every caller (goroutine) is a process with a program counter; the steps *)
(* are the lock operations, the field assignments and the network calls of *)
(* the Go code.  The servers (API and token endpoint) answer               *)
(* nondeterministically.                                                   *)
(***************************************************************************)
EXTENDS Integers, FiniteSets, Sequences, TLC

\* ---- bounds ------------------------------------------------------------
NumProcs == 2      \* concurrent callers of one client
MaxOps   == 2      \* operations started on the client in one behaviour
MaxClock == 2      \* readings of time.Now()

Procs == 1..NumProcs

\* ---- value domains -----------------------------------------------------
StatusOK           == 200   \* http.StatusOK
StatusUnauthorized == 401   \* http.StatusUnauthorized
SuccessFrom        == 200   \* statusCode < 200 fails
SuccessBelow       == 300   \* statusCode >= 300 fails

\* URLs
DefaultBaseURL == "https://services.leadconnectorhq.com"
OAuthTokenURL  == "https://services.leadconnectorhq.com/oauth/token"
ConfigBaseURLs == {"", "http://localhost:8080"}   \* Config.BaseURL
ApiPath        == "/contacts/"                    \* path of a direct doRequest

\* strings used as access tokens / refresh tokens ("" is the empty string)
InitAccessTokens  == {"", "t0"}
InitRefreshTokens == {"", "r0"}
SetAccessValues   == {"", "t2"}
SetRefreshValues  == {"", "r2"}
RespAccessValues  == {"", "t1"}
RespRefreshValues == {"", "r1"}
ExpiresInValues   == {0, 2}
NegativeExpiresIn == -1     \* an expires-in below zero ("override" profile)

\* response bodies of the API: empty, valid JSON, invalid JSON
Bodies == {"", "{}", "junk"}
ApiStatuses == {StatusOK, SuccessBelow - 1, SuccessBelow, StatusUnauthorized}

\* request inputs of doRequest: body is nil, a marshalable value or a value
\* json.Marshal rejects; result is nil or a target
DirectRequest(body, result) ==
    [method |-> "GET", path |-> ApiPath, body |-> body, result |-> result,
     locationId |-> ""]
Requests == { DirectRequest("nil", FALSE), DirectRequest("json", TRUE),
              DirectRequest("bad", TRUE) }

\* the reduced domains of the "race" profile
\* what a registered callback does with the client
CallbackBodies == {"nothing", "GetAccessToken", "GetRefreshToken", "SetAccessToken",
                   "SetTokens"}
RaceRequests == { DirectRequest("nil", FALSE) }

\* location ids ("" is none)
LocationIDs == {"", "L1"}

VARIABLES
    BaseURL,                     \* Client.BaseURL
    locationID,                  \* Client.locationID
    lastWrite,                   \* history: the operation that last released the
                                 \* exclusive lock and the (access, refresh)
                                 \* pair it was given to store
    lastCb,                      \* history: the (access, refresh) pair passed to
                                 \* the last invocation of onTokenRefresh
    clientID, clientSecret,      \* Client.clientID, Client.clientSecret
    autoRefreshOn401,            \* Client.autoRefreshOn401
    onTokenRefresh,              \* Client.onTokenRefresh # nil
    callbackCalls,               \* the method of the client the registered
                                 \* callback calls with its arguments
    accessToken, refreshToken,   \* Client.accessToken, Client.refreshToken
    tokenExpiry,                 \* Client.tokenExpiry (0 = zero time)
    rHolders, wHolders,          \* tokenMutex: holders of RLock / Lock
    now,                         \* the wall clock read by time.Now()
    started,                     \* number of operations started so far
    loc,                         \* per caller: operation, position, locals
    committed,                   \* history: triple at the last Unlock
    refreshes,                   \* history: successful automatic refreshes
    callbacks,                   \* history: invocations of onTokenRefresh
    profile                      \* "data": many server answers, one operation
                                 \* at a time; "race": callers fully
                                 \* concurrent, few server answers;
                                 \* "override": a base URL is configured, one
                                 \* operation at a time, few server answers;
                                 \* "callback": the callback calls the client,
                                 \* one operation at a time, few server answers;
                                 \* "contacts": the ContactsService is used,
                                 \* one operation at a time, few server answers

config == <<BaseURL, clientID, clientSecret, autoRefreshOn401, onTokenRefresh,
            callbackCalls, profile>>
store  == <<accessToken, refreshToken, tokenExpiry>>
counts == <<refreshes, callbacks>>
history == <<lastWrite, lastCb>>
vars   == <<config, locationID, history, store, rHolders, wHolders, now, started, loc,
            committed, counts>>

\* ---- errors ------------------------------------------------------------
NoErr == [kind |-> "nil", status |-> 0, body |-> "", cause |-> "nil"]
Err(k) == [kind |-> k, status |-> 0, body |-> "", cause |-> "nil"]
APIError(s, b) == [kind |-> "api", status |-> s, body |-> b, cause |-> "nil"]
\* variant: the refresh error is dropped and the original error returned
CompositeErrorMutant(s, b, refreshErr) == APIError(s, b)
CompositeError(s, b, refreshErr) ==
    [kind |-> "composite", status |-> s, body |-> b, cause |-> refreshErr.kind]

\* ---- per-caller state ---------------------------------------------------
NoTokenResp == [access |-> "", refresh |-> "", expiresIn |-> 0]
NoResp == [kind |-> "none", status |-> 0, body |-> ""]
JunkBody == [json |-> FALSE, access |-> "", refresh |-> "", expiresIn |-> 0]
NoTokenAnswer == [kind |-> "none", status |-> 0, body |-> JunkBody]
IdleLoc ==
    [ op |-> "none", pc |-> "idle",
      req |-> DirectRequest("nil", FALSE),
      service |-> "",       \* the ContactsService method that made the call
      given |-> "",         \* the LocationID of its request or options, or
                            \* the contact or business id it was given
      tags |-> <<>>,        \* AddTags, RemoveTags: the tags given
      opts |-> [query |-> "", limit |-> 0],  \* List: the other options
      wire |-> <<>>,        \* <<method, path, body>> of the API requests sent
      contact |-> "nil",    \* Create, Get, Update, Upsert: the contact returned
      arg |-> NoTokenResp,
      \* locals of doRequest / executeRequest / refreshTokenInternal
      token |-> "", statusCode |-> 0, respBody |-> "", err |-> NoErr,
      hasRefreshToken |-> FALSE, currentRefreshToken |-> "",
      tokenResp |-> NoTokenResp, refreshErr |-> NoErr,
      attempt |-> 0,
      \* history of the call
      reads |-> <<>>,       \* access tokens read by executeRequest
      bearers |-> <<>>,     \* bearer tokens of the API requests sent
      resp1 |-> NoResp,     \* answer to the first API request
      resp2 |-> NoResp,     \* answer to the retried API request
      tokenReqs |-> 0,      \* requests sent to the token endpoint
      tresp |-> NoTokenAnswer,  \* answer of the token endpoint
      before |-> <<>>,      \* the store when the call took the exclusive lock
      cbCalls |-> 0,        \* invocations of onTokenRefresh
      cbArgs |-> <<>>,      \* arguments of these invocations
      cbAt |-> <<>>,        \* <<store writes, API requests>> of the call at
                            \* each invocation
      trace |-> <<>>,       \* doRequest: the stages the call went through
      tokenURLs |-> <<>>,   \* URLs of the token-endpoint requests sent
      presented |-> <<>>,   \* refresh tokens of the refresh requests sent
      apiURLs |-> <<>>,     \* URLs of the API requests sent
      writes |-> 0,         \* write sections on the token store
      fresh |-> FALSE,      \* no other write of accessToken between this
                            \* call's refresh and the read of its retry
      target |-> "untouched",  \* doRequest: what became of the result target
      nested |-> <<>>,      \* the calls the callback has made and finished
      readVal |-> "",       \* value returned by a getter
      ret |-> NoErr ]       \* error returned

Set(p, r) == loc' = [loc EXCEPT ![p] = r]

\* p wrote accessToken: the refresh of another caller that has not yet read
\* the token for its retry is no longer the last write
SetWriter(p, r) ==
    loc' = [q \in Procs |-> IF q = p THEN r
                            ELSE IF Len(loc[q].reads) < 2
                            THEN [loc[q] EXCEPT !.fresh = FALSE]
                            ELSE loc[q]]

\* ---- tokenMutex (sync.RWMutex) -----------------------------------------
\* variant: writers do not wait for the lock
CanLockMutant(p) == TRUE
CanLock(p)  == wHolders = {} /\ rHolders = {}
CanRLock(p) == wHolders = {}
\* variant: the shared lock is kept
RUnlockMutant(p) == rHolders
RUnlock(p) == rHolders \ {p}
\* variant: the exclusive lock is kept
UnlockMutant(p) == wHolders
Unlock(p) == wHolders \ {p}

\* NewClient: baseURL := config.BaseURL, DefaultBaseURL if that is empty
NewBaseURL(configured) == IF configured = "" THEN DefaultBaseURL ELSE configured

InitData ==
    /\ profile = "data"
    /\ callbackCalls = "nothing"
    /\ BaseURL = NewBaseURL("")
    /\ locationID = ""
    /\ clientID \in {"", "id"}
    /\ clientSecret \in {"", "secret"}
    /\ autoRefreshOn401 \in BOOLEAN
    /\ onTokenRefresh \in BOOLEAN
    /\ accessToken \in InitAccessTokens
    /\ refreshToken \in InitRefreshTokens

InitRace ==
    /\ profile = "race"
    /\ callbackCalls = "nothing"
    /\ BaseURL = NewBaseURL("")
    /\ locationID = ""
    /\ clientID = "id"
    /\ clientSecret = "secret"
    /\ autoRefreshOn401 \in BOOLEAN
    /\ onTokenRefresh = TRUE
    /\ accessToken = "t0"
    /\ refreshToken \in InitRefreshTokens

InitOverride ==
    /\ profile = "override"
    /\ callbackCalls = "nothing"
    /\ \E u \in ConfigBaseURLs \ {""} : BaseURL = NewBaseURL(u)
    /\ locationID = ""
    /\ clientID = "id"
    /\ clientSecret = "secret"
    /\ autoRefreshOn401 \in BOOLEAN
    /\ onTokenRefresh = TRUE
    /\ accessToken = "t0"
    /\ refreshToken \in InitRefreshTokens

InitCallback ==
    /\ profile = "callback"
    /\ callbackCalls \in CallbackBodies \ {"nothing"}
    /\ BaseURL = NewBaseURL("")
    /\ locationID = ""
    /\ clientID = "id"
    /\ clientSecret = "secret"
    /\ autoRefreshOn401 = TRUE
    /\ onTokenRefresh = TRUE
    /\ accessToken = "t0"
    /\ refreshToken = "r0"

InitContacts ==
    /\ profile = "contacts"
    /\ callbackCalls = "nothing"
    /\ BaseURL = NewBaseURL("")
    /\ locationID \in LocationIDs
    /\ clientID = "id"
    /\ clientSecret = "secret"
    /\ autoRefreshOn401 = TRUE
    /\ onTokenRefresh = TRUE
    /\ accessToken \in InitAccessTokens
    /\ refreshToken = "r0"

\* NewClient: the configuration is copied, the expiry is the zero time
Init ==
    /\ InitData \/ InitRace \/ InitOverride \/ InitCallback \/ InitContacts
    /\ tokenExpiry = 0
    /\ rHolders = {}
    /\ wHolders = {}
    /\ now = 1
    /\ started = 0
    /\ loc = [p \in Procs |-> IdleLoc]
    /\ committed = <<accessToken, refreshToken, tokenExpiry>>
    /\ refreshes = 0
    /\ callbacks = 0
    /\ lastWrite = [by |-> "NewClient", pair |-> <<accessToken, refreshToken>>]
    /\ lastCb = <<>>

\* the record of a finished call is dropped before any other step is taken,
\* as a finished call takes no further part
NoneDone == \A q \in Procs : loc[q].pc # "done"

\* caller p is at position pc
At(p, pc) == NoneDone /\ loc[p].pc = pc

\* a caller starts an operation.  Callers have no identity: the idle caller of least number takes
\* the operation.  Outside the "race" profile the operations run one after
\* the other.
Begin(p) ==
    /\ At(p, "idle")
    /\ \A q \in Procs : q < p => loc[q].pc # "idle"
    /\ profile # "race" => \A q \in Procs : loc[q].pc = "idle"
    /\ started < MaxOps
    /\ started' = started + 1

Return(p) ==
    /\ loc[p].pc = "done"
    /\ Set(p, IdleLoc)
    /\ UNCHANGED <<config, locationID, history, counts, store, rHolders, wHolders, now, started, committed>>

\* time.Now(): some time not before the last reading (in the "race" profile
\* the calls are too short for the clock to advance)
Clock == IF profile = "data" THEN now..MaxClock ELSE {now}

\* time passes between two operations, up to MaxClock + LongestLife, which is
\* past every expiry a token can get (followed in the "override" profile)
LongestLife == CHOOSE e \in ExpiresInValues : \A f \in ExpiresInValues : f <= e
Tick ==
    /\ profile = "override"
    /\ \A q \in Procs : loc[q].pc = "idle"
    /\ now < MaxClock + LongestLife
    /\ now' = now + 1
    /\ UNCHANGED <<config, locationID, history, counts, store, rHolders, wHolders, started, loc,
                   committed>>

\* if expiresIn > 0 { c.tokenExpiry = time.Now().Add(expiresIn seconds) }
\* variant: the expiry is recomputed whatever expiresIn is
NewExpiryMutant(expiresIn, old, t) == t + expiresIn
\* variant: an expires-in that is not positive clears the expiry
NewExpiryClearMutant(expiresIn, old, t) == IF expiresIn > 0 THEN t + expiresIn ELSE 0
NewExpiry(expiresIn, old, t) == IF expiresIn > 0 THEN t + expiresIn ELSE old

WriteExpiry(expiresIn) ==
    IF expiresIn > 0
    THEN \E t \in Clock : now' = t /\ tokenExpiry' = NewExpiry(expiresIn, tokenExpiry, t)
    ELSE now' = now /\ tokenExpiry' = NewExpiry(expiresIn, tokenExpiry, now)

\* ---- SetAccessToken -----------------------------------------------------
SetAccessToken_Call(p) ==
    /\ Begin(p)
    /\ \E t \in SetAccessValues :
         Set(p, [IdleLoc EXCEPT !.op = "SetAccessToken", !.pc = "sa_lock",
                              !.arg.access = t])
    /\ UNCHANGED <<config, locationID, history, counts, store, rHolders, wHolders, now, committed>>

SetAccessToken_Lock(p) ==
    /\ At(p, "sa_lock")
    /\ CanLock(p)
    /\ wHolders' = wHolders \cup {p}
    /\ Set(p, [loc[p] EXCEPT !.pc = "sa_write", !.before = store])
    /\ UNCHANGED <<config, locationID, history, counts, store, rHolders, now, started, committed>>

SetAccessToken_Write(p) ==
    /\ At(p, "sa_write")
    /\ accessToken' = loc[p].arg.access
    /\ SetWriter(p, [loc[p] EXCEPT !.pc = "sa_unlock", !.writes = @ + 1])
    /\ UNCHANGED <<config, locationID, history, counts, refreshToken, tokenExpiry, rHolders, wHolders, now,
                   started, committed>>

SetAccessToken_Unlock(p) ==
    /\ At(p, "sa_unlock")
    /\ wHolders' = Unlock(p)
    /\ committed' = store
    /\ lastWrite' = [by |-> "SetAccessToken", pair |-> <<loc[p].arg.access, refreshToken>>]
    /\ Set(p, [loc[p] EXCEPT !.pc = "done"])
    /\ UNCHANGED <<config, locationID, lastCb, counts, store, rHolders, now, started>>

\* ---- SetTokens ----------------------------------------------------------
SetTokensArgs ==
    IF profile = "data"
    THEN { [access |-> "t2", refresh |-> r, expiresIn |-> e] :
             r \in SetRefreshValues, e \in ExpiresInValues }
    ELSE IF profile = "override"
    THEN { [access |-> "t2", refresh |-> "r2", expiresIn |-> e] :
             e \in ExpiresInValues \cup {NegativeExpiresIn} }
    ELSE { [access |-> "t2", refresh |-> "r2", expiresIn |-> 2] }

SetTokens_Call(p) ==
    /\ Begin(p)
    /\ \E a \in SetTokensArgs :
         Set(p, [IdleLoc EXCEPT !.op = "SetTokens", !.pc = "st_lock", !.arg = a])
    /\ UNCHANGED <<config, locationID, history, counts, store, rHolders, wHolders, now, committed>>

SetTokens_Lock(p) ==
    /\ At(p, "st_lock")
    /\ CanLock(p)
    /\ wHolders' = wHolders \cup {p}
    /\ Set(p, [loc[p] EXCEPT !.pc = "st_access", !.before = store])
    /\ UNCHANGED <<config, locationID, history, counts, store, rHolders, now, started, committed>>

SetTokens_WriteAccess(p) ==
    /\ At(p, "st_access")
    /\ accessToken' = loc[p].arg.access
    /\ SetWriter(p, [loc[p] EXCEPT !.pc = "st_refresh", !.writes = @ + 1])
    /\ UNCHANGED <<config, locationID, history, counts, refreshToken, tokenExpiry, rHolders, wHolders, now,
                   started, committed>>

SetTokens_WriteRefresh(p) ==
    /\ At(p, "st_refresh")
    /\ refreshToken' = loc[p].arg.refresh
    /\ Set(p, [loc[p] EXCEPT !.pc = "st_expiry"])
    /\ UNCHANGED <<config, locationID, history, counts, accessToken, tokenExpiry, rHolders, wHolders, now,
                   started, committed>>

SetTokens_WriteExpiry(p) ==
    /\ At(p, "st_expiry")
    /\ WriteExpiry(loc[p].arg.expiresIn)
    /\ Set(p, [loc[p] EXCEPT !.pc = "st_unlock"])
    /\ UNCHANGED <<config, locationID, history, counts, accessToken, refreshToken, rHolders, wHolders,
                   started, committed>>

SetTokens_Unlock(p) ==
    /\ At(p, "st_unlock")
    /\ wHolders' = Unlock(p)
    /\ committed' = store
    /\ lastWrite' = [by |-> "SetTokens", pair |-> <<loc[p].arg.access, loc[p].arg.refresh>>]
    /\ Set(p, [loc[p] EXCEPT !.pc = "done"])
    /\ UNCHANGED <<config, locationID, lastCb, counts, store, rHolders, now, started>>

\* ---- GetAccessToken / GetRefreshToken ------------------------------------
GetAccessToken_Call(p) ==
    /\ Begin(p)
    /\ Set(p, [IdleLoc EXCEPT !.op = "GetAccessToken", !.pc = "ga_rlock"])
    /\ UNCHANGED <<config, locationID, history, counts, store, rHolders, wHolders, now, committed>>

GetAccessToken_RLock(p) ==
    /\ At(p, "ga_rlock")
    /\ CanRLock(p)
    /\ rHolders' = rHolders \cup {p}
    /\ Set(p, [loc[p] EXCEPT !.pc = "ga_read"])
    /\ UNCHANGED <<config, locationID, history, counts, store, wHolders, now, started, committed>>

GetAccessToken_Return(p) ==
    /\ At(p, "ga_read")
    /\ rHolders' = RUnlock(p)
    /\ Set(p, [loc[p] EXCEPT !.pc = "done", !.readVal = accessToken])
    /\ UNCHANGED <<config, locationID, history, counts, store, wHolders, now, started, committed>>

\* (in the "race" profile GetAccessToken stands for both getters)
GetRefreshToken_Call(p) ==
    /\ Begin(p)
    /\ profile # "race"
    /\ Set(p, [IdleLoc EXCEPT !.op = "GetRefreshToken", !.pc = "gr_rlock"])
    /\ UNCHANGED <<config, locationID, history, counts, store, rHolders, wHolders, now, committed>>

GetRefreshToken_RLock(p) ==
    /\ At(p, "gr_rlock")
    /\ CanRLock(p)
    /\ rHolders' = rHolders \cup {p}
    /\ Set(p, [loc[p] EXCEPT !.pc = "gr_read"])
    /\ UNCHANGED <<config, locationID, history, counts, store, wHolders, now, started, committed>>

GetRefreshToken_Return(p) ==
    /\ At(p, "gr_read")
    /\ rHolders' = RUnlock(p)
    /\ Set(p, [loc[p] EXCEPT !.pc = "done", !.readVal = refreshToken])
    /\ UNCHANGED <<config, locationID, history, counts, store, wHolders, now, started, committed>>

\* ---- the servers --------------------------------------------------------
\* what HTTPClient.Do and io.ReadAll can yield for an API request: no
\* response at all, a status whose body cannot be read, a full response
ApiResponses ==
    { [kind |-> "transport", status |-> 0, body |-> ""] }
    \cup { [kind |-> "readfail", status |-> s, body |-> ""] : s \in ApiStatuses }
    \cup { [kind |-> "full", status |-> s, body |-> b] : s \in ApiStatuses, b \in Bodies }
RaceApiResponses ==
    { [kind |-> "full", status |-> s, body |-> "{}"] : s \in {StatusOK, StatusUnauthorized} }
\* a body with a contact member
ContactBody == "{\"contact\":{\"id\":\"c1\"}}"
ContactsApiResponses ==
    RaceApiResponses
    \cup { [kind |-> "full", status |-> StatusOK, body |-> b] : b \in {"", ContactBody} }
ApiAnswers == IF profile = "data" THEN ApiResponses
              ELSE IF profile = "contacts" THEN ContactsApiResponses
              ELSE RaceApiResponses

\* answers of the token endpoint; the body is not JSON, or a JSON object
\* whose absent members unmarshal to the zero value
TokenJsonBodies ==
    { [json |-> TRUE, access |-> a, refresh |-> r, expiresIn |-> e] :
        a \in RespAccessValues, r \in RespRefreshValues, e \in ExpiresInValues }
TokenResponses ==
    { [kind |-> "transport", status |-> 0, body |-> JunkBody],
      [kind |-> "readfail", status |-> StatusOK, body |-> JunkBody],
      [kind |-> "full", status |-> StatusUnauthorized, body |-> JunkBody],
      [kind |-> "full", status |-> StatusOK, body |-> JunkBody] }
    \cup { [kind |-> "full", status |-> StatusOK, body |-> b] : b \in TokenJsonBodies }
RaceTokenResponses ==
    { [kind |-> "full", status |-> StatusUnauthorized, body |-> JunkBody],
      [kind |-> "full", status |-> StatusOK,
       body |-> [json |-> TRUE, access |-> "t1", refresh |-> "r1", expiresIn |-> 2]],
      [kind |-> "full", status |-> StatusOK,
       body |-> [json |-> TRUE, access |-> "", refresh |-> "", expiresIn |-> 0]] }
OverrideTokenResponses ==
    RaceTokenResponses
    \cup { [kind |-> "full", status |-> StatusOK,
            body |-> [json |-> TRUE, access |-> "t1", refresh |-> "r1",
                      expiresIn |-> NegativeExpiresIn]] }
TokenAnswers == IF profile = "data" THEN TokenResponses
                ELSE IF profile = "override" THEN OverrideTokenResponses
                ELSE RaceTokenResponses

\* ---- executeRequest -----------------------------------------------------
\* the (statusCode, respBody, err) executeRequest returns for a response
ExecReturn(resp) ==
    IF resp.kind = "transport" THEN <<0, "", Err("request")>>
    ELSE IF resp.kind = "readfail" THEN <<resp.status, "", Err("read")>>
    ELSE <<resp.status, resp.body, NoErr>>

\* json.Unmarshal(respBody, result)
ParseOK(body) == body \in {"{}", ContactBody}

\* variant: the upper limit is off by one
IsSuccessStatusMutant(statusCode) ==
    ~(statusCode < SuccessFrom \/ statusCode > SuccessBelow)
IsSuccessStatus(statusCode) ==
    ~(statusCode < SuccessFrom \/ statusCode >= SuccessBelow)

\* if result != nil && len(respBody) > 0
\* variant: an empty body is parsed too
ShouldParseMutant(result, respBody) == result
ShouldParse(result, respBody) == result /\ respBody # ""

\* doRequest, "Handle the final response"
FinalResult(err, statusCode, respBody, result) ==
    IF err.kind # "nil" THEN err
    ELSE IF ~IsSuccessStatus(statusCode) THEN APIError(statusCode, respBody)
    ELSE IF ShouldParse(result, respBody) /\ ~ParseOK(respBody) THEN Err("parse")
    ELSE NoErr

\* what doRequest did with the result target: json.Unmarshal was not called,
\* filled it, or failed on it
FinalTarget(err, statusCode, respBody, result) ==
    IF err.kind # "nil" \/ ~IsSuccessStatus(statusCode) THEN "untouched"
    ELSE IF ~ShouldParse(result, respBody) THEN "untouched"
    ELSE IF ParseOK(respBody) THEN "filled" ELSE "failed"

\* the terminal stage of a call that returns ret
Terminal(ret) == IF ret = NoErr THEN "Success" ELSE "Failure"

\* Create, Get, Update, Upsert after doRequest: if err != nil { return nil,
\* err }; return result.Contact, nil.  result.Contact is nil unless
\* json.Unmarshal found a contact member
ReturnedContact(service, ret, target, respBody) ==
    IF /\ service \in {"Create", "Get", "Update", "Upsert"}
       /\ ret = NoErr /\ target = "filled" /\ respBody = ContactBody
    THEN "c1" ELSE "nil"

Finish(l) ==
    LET ret == FinalResult(l.err, l.statusCode, l.respBody, l.req.result)
        target == FinalTarget(l.err, l.statusCode, l.respBody, l.req.result)
    IN [l EXCEPT !.pc = "done", !.ret = ret, !.trace = Append(@, Terminal(ret)),
                 !.target = target,
                 !.contact = ReturnedContact(l.service, ret, target, l.respBody)]

\* doRequest: statusCode == http.StatusUnauthorized && c.autoRefreshOn401
\* variant: the autoRefreshOn401 switch is ignored
ShouldRefreshMutant(statusCode) == statusCode = StatusUnauthorized
\* variant: no refresh is started while another call is refreshing
ShouldRefreshSingleFlightMutant(statusCode) ==
    /\ statusCode = StatusUnauthorized /\ autoRefreshOn401
    /\ \A q \in Procs : loc[q].tokenReqs = 0 \/ loc[q].op # "doRequest"
ShouldRefresh(statusCode) == statusCode = StatusUnauthorized /\ autoRefreshOn401

\* where doRequest continues when executeRequest has returned into l: the
\* refresh check follows the first attempt only
\* variant: the refresh check follows every attempt
AfterExecMutant(l) ==
    IF ShouldRefresh(l.statusCode)
    THEN [l EXCEPT !.pc = "d_rlock"]
    ELSE Finish(l)
AfterExec(l) ==
    IF l.attempt = 1 /\ ShouldRefresh(l.statusCode)
    THEN [l EXCEPT !.pc = "d_rlock"]
    ELSE Finish(l)

doRequest_Call(p) ==
    /\ Begin(p)
    /\ \E r \in (IF profile = "data" THEN Requests ELSE RaceRequests) :
         Set(p, [IdleLoc EXCEPT !.op = "doRequest", !.pc = "e_rlock",
                              !.req = r, !.attempt = 1, !.trace = <<"Start">>])
    /\ UNCHANGED <<config, locationID, history, counts, store, rHolders, wHolders, now, committed>>

executeRequest_RLock(p) ==
    /\ At(p, "e_rlock")
    /\ CanRLock(p)
    /\ rHolders' = rHolders \cup {p}
    /\ Set(p, [loc[p] EXCEPT !.pc = "e_read"])
    /\ UNCHANGED <<config, locationID, history, counts, store, wHolders, now, started, committed>>

\* token := c.accessToken
\* variant: the retry reuses the token of the first attempt
CurrentTokenMutant(l) == IF l.attempt = 2 THEN l.token ELSE accessToken
CurrentToken(l) == accessToken

\* token := c.accessToken; RUnlock
executeRequest_ReadToken(p) ==
    /\ At(p, "e_read")
    /\ rHolders' = RUnlock(p)
    /\ Set(p, [loc[p] EXCEPT !.pc = "e_build", !.token = CurrentToken(loc[p]),
                             !.reads = Append(@, CurrentToken(loc[p]))])
    /\ UNCHANGED <<config, locationID, history, counts, store, wHolders, now, started, committed>>

\* if token == ""
\* variant: the check for an empty token is missing
TokenMissingMutant(token) == FALSE
\* variant: a token past its expiry counts as missing
TokenMissingExpiredMutant(token) == token = "" \/ (tokenExpiry # 0 /\ tokenExpiry < now)
TokenMissing(token) == token = ""

\* fullURL := c.BaseURL + path
fullURL(path) == BaseURL \o path

\* the token check, json.Marshal, http.NewRequest and the start of
\* HTTPClient.Do
executeRequest_Send(p) ==
    /\ At(p, "e_build")
    /\ IF TokenMissing(loc[p].token)
       THEN Set(p, AfterExec([loc[p] EXCEPT !.statusCode = 0, !.respBody = "",
                                            !.err = Err("notoken")]))
       ELSE IF loc[p].req.body = "bad"
       THEN Set(p, AfterExec([loc[p] EXCEPT !.statusCode = 0, !.respBody = "",
                                            !.err = Err("marshal")]))
       ELSE Set(p, [loc[p] EXCEPT !.pc = "e_wait",
                                  !.bearers = Append(@, loc[p].token),
                                  !.apiURLs = Append(@, fullURL(loc[p].req.path)),
                                  !.wire = Append(@, <<loc[p].req.method,
                                                       loc[p].req.path,
                                                       loc[p].req.body>>),
                                  !.trace = Append(@, IF loc[p].attempt = 1
                                                      THEN "Sent" ELSE "Retried")])
    /\ UNCHANGED <<config, locationID, history, counts, store, rHolders, wHolders, now, started, committed>>

\* the response arrives and executeRequest returns
executeRequest_Recv(p) ==
    /\ At(p, "e_wait")
    /\ \E resp \in ApiAnswers :
         LET r == ExecReturn(resp)
             l == [loc[p] EXCEPT !.statusCode = r[1], !.respBody = r[2], !.err = r[3],
                                 !.resp1 = IF loc[p].attempt = 1 THEN resp ELSE @,
                                 !.resp2 = IF loc[p].attempt = 2 THEN resp ELSE @]
         IN Set(p, AfterExec(l))
    /\ UNCHANGED <<config, locationID, history, counts, store, rHolders, wHolders, now, started, committed>>

\* ---- doRequest: eligibility ------------------------------------------------
HasCredentials == clientID # "" /\ clientSecret # ""

\* variant: the refresh token is not checked
EligibleMutant(hasRefreshToken, hasCredentials) == hasCredentials
\* variant: the credentials are not checked
EligibleNoCredentialsMutant(hasRefreshToken, hasCredentials) == hasRefreshToken
Eligible(hasRefreshToken, hasCredentials) == hasRefreshToken /\ hasCredentials

doRequest_RLock(p) ==
    /\ At(p, "d_rlock")
    /\ CanRLock(p)
    /\ rHolders' = rHolders \cup {p}
    /\ Set(p, [loc[p] EXCEPT !.pc = "d_read"])
    /\ UNCHANGED <<config, locationID, history, counts, store, wHolders, now, started, committed>>

\* hasRefreshToken, hasCredentials, currentRefreshToken; RUnlock; the if
doRequest_ReadCreds(p) ==
    /\ At(p, "d_read")
    /\ rHolders' = RUnlock(p)
    /\ LET l == [loc[p] EXCEPT !.hasRefreshToken = (refreshToken # ""),
                               !.currentRefreshToken = refreshToken]
       IN IF Eligible(l.hasRefreshToken, HasCredentials)
          THEN Set(p, [l EXCEPT !.pc = "r_send",
                                !.trace = Append(@, "NeedsRefresh")])
          ELSE Set(p, Finish(l))
    /\ UNCHANGED <<config, locationID, history, counts, store, wHolders, now, started, committed>>

\* ---- refreshTokenInternal -------------------------------------------------
\* the error refreshTokenInternal returns for a token-endpoint response
\* variant: a body that does not parse is taken as an empty token response
TokenErrNoParseMutant(resp) ==
    IF resp.kind = "transport" THEN Err("fetch")
    ELSE IF resp.kind = "readfail" THEN Err("readtoken")
    ELSE IF resp.status # StatusOK THEN Err("tokenstatus")
    ELSE NoErr
TokenErr(resp) ==
    IF resp.kind = "transport" THEN Err("fetch")
    ELSE IF resp.kind = "readfail" THEN Err("readtoken")
    ELSE IF resp.status # StatusOK THEN Err("tokenstatus")
    ELSE IF ~resp.body.json THEN Err("parsetoken")
    ELSE NoErr

\* json.Unmarshal(body, &tokenResp)
ParseToken(body) ==
    [access |-> body.access, refresh |-> body.refresh, expiresIn |-> body.expiresIn]

\* doRequest when refreshTokenInternal returned refreshErr: no retry
\* variant: the API request is sent again after a failed refresh
RefreshFailedMutant(l, refreshErr) ==
    [l EXCEPT !.pc = "e_rlock", !.attempt = 2, !.refreshErr = refreshErr]
RefreshFailed(l, refreshErr) ==
    [l EXCEPT !.pc = "done", !.refreshErr = refreshErr,
              !.ret = CompositeError(l.statusCode, l.respBody, refreshErr),
              !.trace = Append(@, "Failure")]

\* data.Set("refresh_token", refreshToken): the argument doRequest passed
\* variant: the refresh token is read from the store when the request is built
PresentedTokenStoredMutant(l) == refreshToken
PresentedToken(l) == l.currentRefreshToken

\* the credentials check and the start of HTTPClient.Do
refreshTokenInternal_Send(p) ==
    /\ At(p, "r_send")
    /\ IF clientID = "" \/ clientSecret = ""
       THEN Set(p, RefreshFailed(loc[p], Err("config")))
       ELSE Set(p, [loc[p] EXCEPT !.pc = "r_wait", !.tokenReqs = @ + 1,
                                  !.tokenURLs = Append(@, OAuthTokenURL),
                                  !.presented = Append(@, PresentedToken(loc[p]))])
    /\ UNCHANGED <<config, locationID, history, counts, store, rHolders, wHolders, now, started, committed>>

\* the token response arrives: status check and parse
refreshTokenInternal_Recv(p) ==
    /\ At(p, "r_wait")
    /\ \E resp \in TokenAnswers :
         IF TokenErr(resp).kind # "nil"
         THEN Set(p, RefreshFailed([loc[p] EXCEPT !.tresp = resp], TokenErr(resp)))
         ELSE Set(p, [loc[p] EXCEPT !.pc = "r_lock", !.tresp = resp,
                                    !.tokenResp = ParseToken(resp.body)])
    /\ UNCHANGED <<config, locationID, history, counts, store, rHolders, wHolders, now, started, committed>>

refreshTokenInternal_Lock(p) ==
    /\ At(p, "r_lock")
    /\ CanLock(p)
    /\ wHolders' = wHolders \cup {p}
    /\ Set(p, [loc[p] EXCEPT !.pc = "r_access", !.before = store])
    /\ UNCHANGED <<config, locationID, history, counts, store, rHolders, now, started, committed>>

\* c.refreshToken = tokenResp.RefreshToken
\* variant: an empty refresh token in the response keeps the stored one
NewRefreshTokenKeepMutant(given, old) == IF given = "" THEN old ELSE given
NewRefreshToken(given, old) == given

refreshTokenInternal_WriteAccess(p) ==
    /\ At(p, "r_access")
    /\ accessToken' = loc[p].tokenResp.access
    /\ SetWriter(p, [loc[p] EXCEPT !.pc = "r_refresh", !.writes = @ + 1,
                                   !.fresh = TRUE])
    /\ UNCHANGED <<config, locationID, history, counts, refreshToken, tokenExpiry, rHolders, wHolders, now,
                   started, committed>>

refreshTokenInternal_WriteRefresh(p) ==
    /\ At(p, "r_refresh")
    /\ refreshToken' = NewRefreshToken(loc[p].tokenResp.refresh, refreshToken)
    /\ Set(p, [loc[p] EXCEPT !.pc = "r_expiry"])
    /\ UNCHANGED <<config, locationID, history, counts, accessToken, tokenExpiry, rHolders, wHolders, now,
                   started, committed>>

refreshTokenInternal_WriteExpiry(p) ==
    /\ At(p, "r_expiry")
    /\ WriteExpiry(loc[p].tokenResp.expiresIn)
    /\ Set(p, [loc[p] EXCEPT !.pc = "r_unlock"])
    /\ UNCHANGED <<config, locationID, history, counts, accessToken, refreshToken, rHolders, wHolders,
                   started, committed>>

\* the store holds the token response: the refresh has succeeded
refreshTokenInternal_Unlock(p) ==
    /\ At(p, "r_unlock")
    /\ wHolders' = Unlock(p)
    /\ committed' = store
    /\ lastWrite' = [by |-> "refreshTokenInternal",
                     pair |-> <<loc[p].tokenResp.access, loc[p].tokenResp.refresh>>]
    /\ refreshes' = refreshes + 1
    /\ Set(p, [loc[p] EXCEPT !.pc = "r_callback"])
    /\ UNCHANGED <<config, locationID, lastCb, callbacks, store, rHolders, now, started>>

\* if c.onTokenRefresh != nil { c.onTokenRefresh(AccessToken, RefreshToken,
\* ExpiresIn) }
\* variant: the callback is not invoked
InvokeCallbackMutant(l) == l
InvokeCallback(l) ==
    IF onTokenRefresh
    THEN [l EXCEPT !.cbCalls = @ + 1, !.cbArgs = Append(@, l.tokenResp),
                   !.cbAt = Append(@, <<l.writes, Len(l.bearers)>>)]
    ELSE l

\* the pair passed to the last callback when a call goes from l to m
LastCallback(l, m) ==
    IF m.cbCalls > l.cbCalls
    THEN <<m.cbArgs[Len(m.cbArgs)].access, m.cbArgs[Len(m.cbArgs)].refresh>>
    ELSE lastCb

\* return nil, and doRequest calls the retry
RefreshDone(l) ==
    [l EXCEPT !.pc = "e_rlock", !.attempt = 2, !.trace = Append(@, "Refreshed")]

\* where the invoked callback starts
CallbackEntry ==
    IF callbackCalls \in {"GetAccessToken", "GetRefreshToken"} THEN "c_rlock" ELSE "c_lock"

\* the callback is invoked; one that calls nothing returns at once, and so
\* does refreshTokenInternal
refreshTokenInternal_Callback(p) ==
    /\ At(p, "r_callback")
    /\ LET l == InvokeCallback(loc[p])
       IN /\ callbacks' = callbacks + (l.cbCalls - loc[p].cbCalls)
          /\ lastCb' = LastCallback(loc[p], l)
          /\ IF l.cbCalls > loc[p].cbCalls /\ callbackCalls # "nothing"
             THEN Set(p, [l EXCEPT !.pc = CallbackEntry])
             ELSE Set(p, RefreshDone(l))
    /\ UNCHANGED <<config, locationID, lastWrite, refreshes, store, rHolders, wHolders, now, started,
                   committed>>

\* ---- a callback that calls the client --------------------------------------
\* GetAccessToken / GetRefreshToken called by the callback: RLock
callback_RLock(p) ==
    /\ At(p, "c_rlock")
    /\ CanRLock(p)
    /\ rHolders' = rHolders \cup {p}
    /\ Set(p, [loc[p] EXCEPT !.pc = "c_read"])
    /\ UNCHANGED <<config, locationID, history, counts, store, wHolders, now, started, committed>>

\* the read, RUnlock and the return of the callback
callback_Read(p) ==
    /\ At(p, "c_read")
    /\ rHolders' = RUnlock(p)
    /\ Set(p, RefreshDone([loc[p] EXCEPT
              !.readVal = IF callbackCalls = "GetAccessToken" THEN accessToken
                          ELSE refreshToken,
              !.nested = Append(@, callbackCalls)]))
    /\ UNCHANGED <<config, locationID, history, counts, store, wHolders, now, started, committed>>

\* SetAccessToken(accessToken) / SetTokens(accessToken, refreshToken,
\* expiresIn) called by the callback with its arguments: Lock
callback_Lock(p) ==
    /\ At(p, "c_lock")
    /\ CanLock(p)
    /\ wHolders' = wHolders \cup {p}
    /\ Set(p, [loc[p] EXCEPT !.pc = "c_write"])
    /\ UNCHANGED <<config, locationID, history, counts, store, rHolders, now, started, committed>>

\* the assignments of the setter
callback_Write(p) ==
    /\ At(p, "c_write")
    /\ accessToken' = loc[p].tokenResp.access
    /\ IF callbackCalls = "SetTokens"
       THEN /\ refreshToken' = loc[p].tokenResp.refresh
            /\ WriteExpiry(loc[p].tokenResp.expiresIn)
       ELSE UNCHANGED <<refreshToken, tokenExpiry, now>>
    /\ Set(p, [loc[p] EXCEPT !.pc = "c_unlock"])
    /\ UNCHANGED <<config, locationID, history, counts, rHolders, wHolders, started, committed>>

\* Unlock and the return of the callback
callback_Unlock(p) ==
    /\ At(p, "c_unlock")
    /\ wHolders' = Unlock(p)
    /\ committed' = store
    /\ lastWrite' = [by |-> callbackCalls,
                     pair |-> <<loc[p].tokenResp.access,
                                IF callbackCalls = "SetTokens"
                                THEN loc[p].tokenResp.refresh ELSE refreshToken>>]
    /\ Set(p, RefreshDone([loc[p] EXCEPT !.nested = Append(@, callbackCalls)]))
    /\ UNCHANGED <<config, locationID, lastCb, counts, store, rHolders, now, started>>

\* ---- AuthorizeWithCode / AuthorizeWithRefreshToken / fetchToken ----------------
\* fetchToken when the token endpoint did not yield a token: the error is
\* returned
\* variant: the token request is sent again
FetchFailedMutant(l, err) ==
    [l EXCEPT !.pc = "f_wait", !.tokenReqs = @ + 1,
              !.tokenURLs = Append(@, OAuthTokenURL)]
FetchFailed(l, err) == [l EXCEPT !.pc = "done", !.ret = err]

\* fetchToken after Unlock: return nil
\* variant: the callback is invoked as in refreshTokenInternal
FetchDoneMutant(l) == InvokeCallback([l EXCEPT !.pc = "done", !.ret = NoErr])
FetchDone(l) == [l EXCEPT !.pc = "done", !.ret = NoErr]

\* the credentials check of AuthorizeWithCode / AuthorizeWithRefreshToken,
\* then fetchToken up to the start of HTTPClient.Do
\* variant: the credentials are not checked
AuthorizeMutant(l) ==
    [l EXCEPT !.pc = "f_wait", !.tokenReqs = @ + 1,
              !.tokenURLs = Append(@, OAuthTokenURL)]
Authorize(l) ==
    IF clientID = "" \/ clientSecret = ""
    THEN [l EXCEPT !.pc = "done", !.ret = Err("config")]
    ELSE [l EXCEPT !.pc = "f_wait", !.tokenReqs = @ + 1,
                   !.tokenURLs = Append(@, OAuthTokenURL)]

\* (in the "race" profile the token exchange is started by
\* AuthorizeWithRefreshToken alone: from fetchToken on the two are the same)
AuthorizeWithCode_Call(p) ==
    /\ Begin(p)
    /\ profile # "race"
    /\ Set(p, Authorize([IdleLoc EXCEPT !.op = "AuthorizeWithCode"]))
    /\ UNCHANGED <<config, locationID, history, counts, store, rHolders, wHolders, now, committed>>

AuthorizeWithRefreshToken_Call(p) ==
    /\ Begin(p)
    /\ Set(p, Authorize([IdleLoc EXCEPT !.op = "AuthorizeWithRefreshToken"]))
    /\ UNCHANGED <<config, locationID, history, counts, store, rHolders, wHolders, now, committed>>

\* the token response arrives: status check and parse
fetchToken_Recv(p) ==
    /\ At(p, "f_wait")
    /\ \E resp \in TokenAnswers :
         IF TokenErr(resp).kind # "nil"
         THEN Set(p, FetchFailed([loc[p] EXCEPT !.tresp = resp], TokenErr(resp)))
         ELSE Set(p, [loc[p] EXCEPT !.pc = "f_lock", !.tresp = resp,
                                    !.tokenResp = ParseToken(resp.body)])
    /\ UNCHANGED <<config, locationID, history, counts, store, rHolders, wHolders, now, started, committed>>

fetchToken_Lock(p) ==
    /\ At(p, "f_lock")
    /\ CanLock(p)
    /\ wHolders' = wHolders \cup {p}
    /\ Set(p, [loc[p] EXCEPT !.pc = "f_access", !.before = store])
    /\ UNCHANGED <<config, locationID, history, counts, store, rHolders, now, started, committed>>

fetchToken_WriteAccess(p) ==
    /\ At(p, "f_access")
    /\ accessToken' = loc[p].tokenResp.access
    /\ SetWriter(p, [loc[p] EXCEPT !.pc = "f_refresh", !.writes = @ + 1])
    /\ UNCHANGED <<config, locationID, history, counts, refreshToken, tokenExpiry, rHolders, wHolders, now,
                   started, committed>>

fetchToken_WriteRefresh(p) ==
    /\ At(p, "f_refresh")
    /\ refreshToken' = NewRefreshToken(loc[p].tokenResp.refresh, refreshToken)
    /\ Set(p, [loc[p] EXCEPT !.pc = "f_expiry"])
    /\ UNCHANGED <<config, locationID, history, counts, accessToken, tokenExpiry, rHolders, wHolders, now,
                   started, committed>>

fetchToken_WriteExpiry(p) ==
    /\ At(p, "f_expiry")
    /\ WriteExpiry(loc[p].tokenResp.expiresIn)
    /\ Set(p, [loc[p] EXCEPT !.pc = "f_unlock"])
    /\ UNCHANGED <<config, locationID, history, counts, accessToken, refreshToken, rHolders, wHolders,
                   started, committed>>

fetchToken_Unlock(p) ==
    /\ At(p, "f_unlock")
    /\ wHolders' = Unlock(p)
    /\ committed' = store
    /\ lastWrite' = [by |-> "fetchToken",
                     pair |-> <<loc[p].tokenResp.access, loc[p].tokenResp.refresh>>]
    /\ LET l == FetchDone(loc[p])
       IN /\ callbacks' = callbacks + (l.cbCalls - loc[p].cbCalls)
          /\ lastCb' = LastCallback(loc[p], l)
          /\ Set(p, l)
    /\ UNCHANGED <<config, locationID, refreshes, store, rHolders, now, started>>

\* ---- SetLocationID / GetLocationID / ContactsService ----------------------------
\* c.locationID = locationID (no lock)
SetLocationID(p) ==
    /\ Begin(p)
    /\ profile = "contacts"
    /\ \E L \in LocationIDs :
         /\ locationID' = L
         /\ Set(p, [IdleLoc EXCEPT !.op = "SetLocationID", !.pc = "done", !.given = L])
    /\ UNCHANGED <<config, history, counts, store, rHolders, wHolders, now, committed>>

GetLocationID(p) ==
    /\ Begin(p)
    /\ profile = "contacts"
    /\ Set(p, [IdleLoc EXCEPT !.op = "GetLocationID", !.pc = "done",
                              !.readVal = locationID])
    /\ UNCHANGED <<config, locationID, history, counts, store, rHolders, wHolders, now, committed>>

\* the values the methods are called with ("" and <<>>: not given)
ContactIDs  == {"", "c1"}
BusinessIDs == {"", "b1"}
TagLists    == {<<>>, <<"vip">>}
ListQueries == {"", "a b"}
ListLimits  == {0, 25}

\* a ContactsService method: the argument is rejected with err, or doRequest
\* is called with the request the method has built
ContactsCall(service, given, err, req) ==
    IF err = NoErr
    THEN [IdleLoc EXCEPT !.op = "doRequest", !.pc = "e_rlock", !.req = req,
                         !.attempt = 1, !.trace = <<"Start">>,
                         !.service = service, !.given = given]
    ELSE [IdleLoc EXCEPT !.op = "Contacts", !.pc = "done", !.ret = err,
                         !.service = service, !.given = given]

ContactsRequest(method, path, body, result, L) ==
    [method |-> method, path |-> path, body |-> body, result |-> result,
     locationId |-> L]

\* if req.LocationID == "" / if contactID == "" / if businessID == ""
\* variant: the argument is not looked at
RequiredMutant(value, name) == NoErr
Required(value, name) == IF value = "" THEN Err(name) ELSE NoErr

\* if contactID == "" {...}; if len(tags) == 0 {...}
\* variant: an empty tag list is let through
TagsRequiredMutant(contactID, tags) == Required(contactID, "contactId is required")
TagsRequired(contactID, tags) ==
    IF contactID = "" THEN Err("contactId is required")
    ELSE IF Len(tags) = 0 THEN Err("at least one tag is required")
    ELSE NoErr

\* Create: POST /contacts/ with req, into a ContactResponse
Contacts_Create(p) ==
    /\ Begin(p)
    /\ profile = "contacts"
    /\ \E L \in LocationIDs :
         Set(p, ContactsCall("Create", L, Required(L, "locationId is required"),
                             ContactsRequest("POST", "/contacts/", "json", TRUE, L)))
    /\ UNCHANGED <<config, locationID, history, counts, store, rHolders, wHolders, now, committed>>

\* Get: GET /contacts/{contactID}, into a ContactResponse
Contacts_Get(p) ==
    /\ Begin(p)
    /\ profile = "contacts"
    /\ \E id \in ContactIDs :
         Set(p, ContactsCall("Get", id, Required(id, "contactId is required"),
                             ContactsRequest("GET", "/contacts/" \o id, "nil", TRUE, "")))
    /\ UNCHANGED <<config, locationID, history, counts, store, rHolders, wHolders, now, committed>>

\* Update: PUT /contacts/{contactID} with req, into a ContactResponse
Contacts_Update(p) ==
    /\ Begin(p)
    /\ profile = "contacts"
    /\ \E id \in ContactIDs :
         Set(p, ContactsCall("Update", id, Required(id, "contactId is required"),
                             ContactsRequest("PUT", "/contacts/" \o id, "json", TRUE, "")))
    /\ UNCHANGED <<config, locationID, history, counts, store, rHolders, wHolders, now, committed>>

\* Delete: DELETE /contacts/{contactID}, no body, no result
Contacts_Delete(p) ==
    /\ Begin(p)
    /\ profile = "contacts"
    /\ \E id \in ContactIDs :
         Set(p, ContactsCall("Delete", id, Required(id, "contactId is required"),
                             ContactsRequest("DELETE", "/contacts/" \o id, "nil", FALSE, "")))
    /\ UNCHANGED <<config, locationID, history, counts, store, rHolders, wHolders, now, committed>>

\* Upsert: POST /contacts/upsert with req, into a ContactResponse
Contacts_Upsert(p) ==
    /\ Begin(p)
    /\ profile = "contacts"
    /\ \E L \in LocationIDs :
         Set(p, ContactsCall("Upsert", L, Required(L, "locationId is required"),
                             ContactsRequest("POST", "/contacts/upsert", "json", TRUE, L)))
    /\ UNCHANGED <<config, locationID, history, counts, store, rHolders, wHolders, now, committed>>

\* fmt.Sprintf("%d", n) for n >= 0
Digits == <<"0", "1", "2", "3", "4", "5", "6", "7", "8", "9">>
RECURSIVE Itoa(_)
Itoa(n) == IF n < 10 THEN Digits[n + 1] ELSE Itoa(n \div 10) \o Digits[(n % 10) + 1]

\* url.QueryEscape, on the values of the model: a space becomes "+"
QueryEscape(v) == IF v = "a b" THEN "a+b" ELSE v

\* url.Values.Encode: key=value joined by "&", the keys in sorted order
RECURSIVE Encode(_)
Encode(pairs) ==
    IF pairs = <<>> THEN ""
    ELSE pairs[1][1] \o "=" \o QueryEscape(pairs[1][2])
         \o (IF Len(pairs) > 1 THEN "&" ELSE "") \o Encode(Tail(pairs))

\* List: the options that are set, in the order of their keys (limit,
\* locationId, query); Skip, StartAfter and StartAfterID stay unset
ListQuery(L, query, limit) ==
    (IF limit > 0 THEN << <<"limit", Itoa(limit)>> >> ELSE <<>>)
    \o (IF L # "" THEN << <<"locationId", L>> >> ELSE <<>>)
    \o (IF query # "" THEN << <<"query", query>> >> ELSE <<>>)

\* path := "/contacts/"; if len(query) > 0 { path = path + "?" + query.Encode() }
\* variant: the "?" is added whether or not an option is set
ListPathMutant(L, query, limit) == "/contacts/" \o "?" \o Encode(ListQuery(L, query, limit))
ListPath(L, query, limit) ==
    IF Len(ListQuery(L, query, limit)) > 0
    THEN "/contacts/" \o "?" \o Encode(ListQuery(L, query, limit))
    ELSE "/contacts/"

\* List: GET on the path with the query, into a ContactsResponse
Contacts_List(p) ==
    /\ Begin(p)
    /\ profile = "contacts"
    /\ \E L \in LocationIDs, query \in ListQueries, limit \in ListLimits :
         Set(p, [ContactsCall("List", L, NoErr,
                              ContactsRequest("GET", ListPath(L, query, limit), "nil",
                                              TRUE, L))
                 EXCEPT !.opts = [query |-> query, limit |-> limit]])
    /\ UNCHANGED <<config, locationID, history, counts, store, rHolders, wHolders, now, committed>>

\* GetByBusinessID: GET /contacts/business/{businessID}, into a
\* ContactsResponse
Contacts_GetByBusinessID(p) ==
    /\ Begin(p)
    /\ profile = "contacts"
    /\ \E id \in BusinessIDs :
         Set(p, ContactsCall("GetByBusinessID", id, Required(id, "businessId is required"),
                             ContactsRequest("GET", "/contacts/business/" \o id, "nil",
                                             TRUE, "")))
    /\ UNCHANGED <<config, locationID, history, counts, store, rHolders, wHolders, now, committed>>

\* AddTags: POST /contacts/{contactID}/tags with {"tags": tags}, no result
Contacts_AddTags(p) ==
    /\ Begin(p)
    /\ profile = "contacts"
    /\ \E id \in ContactIDs, tags \in TagLists :
         Set(p, [ContactsCall("AddTags", id, TagsRequired(id, tags),
                              ContactsRequest("POST", "/contacts/" \o id \o "/tags", "json",
                                              FALSE, ""))
                 EXCEPT !.tags = tags])
    /\ UNCHANGED <<config, locationID, history, counts, store, rHolders, wHolders, now, committed>>

\* RemoveTags: DELETE /contacts/{contactID}/tags with {"tags": tags}, no result
Contacts_RemoveTags(p) ==
    /\ Begin(p)
    /\ profile = "contacts"
    /\ \E id \in ContactIDs, tags \in TagLists :
         Set(p, [ContactsCall("RemoveTags", id, TagsRequired(id, tags),
                              ContactsRequest("DELETE", "/contacts/" \o id \o "/tags",
                                              "json", FALSE, ""))
                 EXCEPT !.tags = tags])
    /\ UNCHANGED <<config, locationID, history, counts, store, rHolders, wHolders, now, committed>>

\* ---- the specification ------------------------------------------------------
Step(p) ==
    \/ SetAccessToken_Call(p)
    \/ SetAccessToken_Lock(p)
    \/ SetAccessToken_Write(p)
    \/ SetAccessToken_Unlock(p)
    \/ SetTokens_Call(p)
    \/ SetTokens_Lock(p)
    \/ SetTokens_WriteAccess(p)
    \/ SetTokens_WriteRefresh(p)
    \/ SetTokens_WriteExpiry(p)
    \/ SetTokens_Unlock(p)
    \/ GetAccessToken_Call(p)
    \/ GetAccessToken_RLock(p)
    \/ GetAccessToken_Return(p)
    \/ GetRefreshToken_Call(p)
    \/ GetRefreshToken_RLock(p)
    \/ GetRefreshToken_Return(p)
    \/ doRequest_Call(p)
    \/ executeRequest_RLock(p)
    \/ executeRequest_ReadToken(p)
    \/ executeRequest_Send(p)
    \/ executeRequest_Recv(p)
    \/ doRequest_RLock(p)
    \/ doRequest_ReadCreds(p)
    \/ refreshTokenInternal_Send(p)
    \/ refreshTokenInternal_Recv(p)
    \/ refreshTokenInternal_Lock(p)
    \/ refreshTokenInternal_WriteAccess(p)
    \/ refreshTokenInternal_WriteRefresh(p)
    \/ refreshTokenInternal_WriteExpiry(p)
    \/ refreshTokenInternal_Unlock(p)
    \/ refreshTokenInternal_Callback(p)
    \/ AuthorizeWithCode_Call(p)
    \/ AuthorizeWithRefreshToken_Call(p)
    \/ fetchToken_Recv(p)
    \/ fetchToken_Lock(p)
    \/ fetchToken_WriteAccess(p)
    \/ fetchToken_WriteRefresh(p)
    \/ fetchToken_WriteExpiry(p)
    \/ fetchToken_Unlock(p)
    \/ callback_RLock(p)
    \/ callback_Read(p)
    \/ callback_Lock(p)
    \/ callback_Write(p)
    \/ callback_Unlock(p)
    \/ SetLocationID(p)
    \/ GetLocationID(p)
    \/ Contacts_Create(p)
    \/ Contacts_Get(p)
    \/ Contacts_Update(p)
    \/ Contacts_Delete(p)
    \/ Contacts_Upsert(p)
    \/ Contacts_List(p)
    \/ Contacts_GetByBusinessID(p)
    \/ Contacts_AddTags(p)
    \/ Contacts_RemoveTags(p)
    \/ Return(p)

Next ==
    \/ \E p \in Procs : Step(p)
    \/ Tick

Spec == Init /\ [][Next]_vars

\* the acquisitions of tokenMutex
Acquire(p) ==
    \/ SetAccessToken_Lock(p)
    \/ SetTokens_Lock(p)
    \/ GetAccessToken_RLock(p)
    \/ GetRefreshToken_RLock(p)
    \/ executeRequest_RLock(p)
    \/ doRequest_RLock(p)
    \/ refreshTokenInternal_Lock(p)
    \/ fetchToken_Lock(p)
    \/ callback_RLock(p)
    \/ callback_Lock(p)

\* the steps of an operation under way that wait for nothing but the
\* scheduler or the answer of a server
Proceed(p) ==
    \/ SetAccessToken_Write(p)
    \/ SetAccessToken_Unlock(p)
    \/ SetTokens_WriteAccess(p)
    \/ SetTokens_WriteRefresh(p)
    \/ SetTokens_WriteExpiry(p)
    \/ SetTokens_Unlock(p)
    \/ GetAccessToken_Return(p)
    \/ GetRefreshToken_Return(p)
    \/ executeRequest_ReadToken(p)
    \/ executeRequest_Send(p)
    \/ executeRequest_Recv(p)
    \/ doRequest_ReadCreds(p)
    \/ refreshTokenInternal_Send(p)
    \/ refreshTokenInternal_Recv(p)
    \/ refreshTokenInternal_WriteAccess(p)
    \/ refreshTokenInternal_WriteRefresh(p)
    \/ refreshTokenInternal_WriteExpiry(p)
    \/ refreshTokenInternal_Unlock(p)
    \/ refreshTokenInternal_Callback(p)
    \/ callback_Read(p)
    \/ callback_Write(p)
    \/ callback_Unlock(p)
    \/ fetchToken_Recv(p)
    \/ fetchToken_WriteAccess(p)
    \/ fetchToken_WriteRefresh(p)
    \/ fetchToken_WriteExpiry(p)
    \/ fetchToken_Unlock(p)
    \/ Return(p)

\* every caller keeps running, every network call returns, and a caller
\* that can take the lock again and again does take it; whether an
\* operation is started at all is left open
FairSpec ==
    /\ Spec
    /\ \A p \in Procs : WF_vars(Proceed(p)) /\ SF_vars(Acquire(p))

\* ---- properties -------------------------------------------------------------
IsCall(p)   == loc[p].op = "doRequest"
Done(p)     == IsCall(p) /\ loc[p].pc = "done"
ApiReqs(p)  == Len(loc[p].bearers)
First401(p) == loc[p].resp1.kind = "full" /\ loc[p].resp1.status = StatusUnauthorized
Parses(body) == body \in {"", "{}", ContactBody}
\* the refresh check of doRequest found refresh token and credentials
FoundEligible(p) ==
    autoRefreshOn401 /\ loc[p].hasRefreshToken /\ clientID # "" /\ clientSecret # ""

\* C1: a doRequest call whose first read of the store finds the access token
\* empty sends no API request and no token-endpoint request, whatever the
\* refresh configuration, and returns the "no access token available" error.
C1_EmptyTokenNoNetwork ==
    \A p \in Procs :
        (IsCall(p) /\ Len(loc[p].reads) >= 1 /\ loc[p].reads[1] = "") =>
            /\ loc[p].bearers = <<>>
            /\ loc[p].tokenReqs = 0
            /\ loc[p].pc \in {"e_build", "done"}
            /\ loc[p].pc = "done" => loc[p].ret = Err("notoken")

C1_Witness ==
    \E p \in Procs :
        /\ Done(p) /\ loc[p].reads = <<"">> /\ loc[p].ret.kind = "notoken"
        /\ autoRefreshOn401 /\ refreshToken # "" /\ HasCredentials

\* C2 as stated: a first response of 401 with auto-refresh enabled, a
\* non-empty refresh token and both credentials gives exactly one refresh call
\* and exactly one retried API call, and success if the retry returns 200.
C2_Original ==
    \A p \in Procs :
        (Done(p) /\ First401(p) /\ FoundEligible(p)) =>
            /\ loc[p].tokenReqs = 1
            /\ ApiReqs(p) = 2
            /\ (loc[p].resp2.kind = "full" /\ loc[p].resp2.status = StatusOK)
                   => loc[p].ret = NoErr

\* C2 amended: in that case exactly one refresh call is made; a failed
\* refresh is followed by no retry; a successful one by exactly one retried
\* API request, unless the store then holds an empty access token; and a
\* retry answered 200 gives success when the body is empty or parses or no
\* result target was given.
C2_RefreshOnceRetryOnce ==
    \A p \in Procs :
        (Done(p) /\ First401(p) /\ FoundEligible(p)) =>
            /\ loc[p].tokenReqs = 1
            /\ loc[p].refreshErr.kind # "nil" => ApiReqs(p) = 1
            /\ loc[p].refreshErr.kind = "nil" =>
                   /\ Len(loc[p].reads) = 2
                   /\ ApiReqs(p) = (IF loc[p].reads[2] = "" THEN 1 ELSE 2)
            /\ ( /\ loc[p].resp2.kind = "full"
                 /\ loc[p].resp2.status = StatusOK
                 /\ (~loc[p].req.result \/ Parses(loc[p].resp2.body)) )
                   => loc[p].ret = NoErr

C2_Witness ==
    \E p \in Procs :
        /\ Done(p) /\ First401(p) /\ FoundEligible(p)
        /\ loc[p].tokenReqs = 1 /\ ApiReqs(p) = 2
        /\ loc[p].resp2.status = StatusOK /\ loc[p].ret = NoErr

\* C3: a first response of 401 with auto-refresh disabled fails with the API
\* error of status 401 after exactly one API request; the call sends no
\* token-endpoint request, does not invoke the callback and writes nothing
\* to the token store.
C3_NoAutoRefresh ==
    \A p \in Procs :
        (Done(p) /\ First401(p) /\ ~autoRefreshOn401) =>
            /\ loc[p].ret = APIError(StatusUnauthorized, loc[p].resp1.body)
            /\ ApiReqs(p) = 1
            /\ loc[p].tokenReqs = 0
            /\ loc[p].cbCalls = 0
            /\ loc[p].writes = 0

C3_Witness ==
    \E p \in Procs :
        /\ Done(p) /\ First401(p) /\ ~autoRefreshOn401
        /\ onTokenRefresh /\ refreshToken # "" /\ HasCredentials
        /\ loc[p].ret.kind = "api"

\* C4 as stated: every call makes zero or one refresh and exactly one or two
\* API requests.
C4_Original ==
    \A p \in Procs :
        Done(p) => loc[p].tokenReqs \in {0, 1} /\ ApiReqs(p) \in {1, 2}

\* C4 amended: every call makes zero or one refresh and at most two API
\* requests: none when the access token is empty or the request cannot be
\* built, otherwise at least one, and two only after a refresh that followed
\* a first status of 401; a 401 on the retry starts no second refresh and no
\* third request.
C4_AtMostOneRefreshTwoRequests ==
    \A p \in Procs :
        IsCall(p) =>
            /\ loc[p].tokenReqs \in {0, 1}
            /\ ApiReqs(p) \in {0, 1, 2}
            /\ ApiReqs(p) = 2 =>
                   /\ loc[p].tokenReqs = 1
                   /\ loc[p].refreshErr.kind = "nil"
                   /\ loc[p].resp1.status = StatusUnauthorized
            /\ (loc[p].pc = "done" /\ ApiReqs(p) = 0) =>
                   /\ loc[p].ret.kind \in {"notoken", "marshal"}
                   /\ loc[p].reads[1] = "" \/ loc[p].req.body = "bad"
            /\ (loc[p].pc = "done" /\ loc[p].reads[1] # "" /\ loc[p].req.body # "bad") =>
                   ApiReqs(p) >= 1

C4_Witness ==
    \E p \in Procs :
        /\ Done(p) /\ ApiReqs(p) = 2 /\ loc[p].tokenReqs = 1
        /\ loc[p].resp2.kind = "full" /\ loc[p].resp2.status = StatusUnauthorized
        /\ loc[p].ret = APIError(StatusUnauthorized, loc[p].resp2.body)

\* C5: when the refresh started after a first 401 fails, the call returns one
\* error holding the status 401 and the body of the first response together
\* with the refresh error, and the API request is not sent again.
C5_CompositeError ==
    \A p \in Procs :
        (Done(p) /\ loc[p].tokenReqs = 1 /\ loc[p].refreshErr.kind # "nil") =>
            /\ loc[p].ret.kind = "composite"
            /\ loc[p].ret.status = StatusUnauthorized
            /\ loc[p].ret.status = loc[p].resp1.status
            /\ loc[p].ret.body = loc[p].resp1.body
            /\ loc[p].ret.cause = loc[p].refreshErr.kind
            /\ loc[p].ret.cause \in {"fetch", "readtoken", "tokenstatus", "parsetoken"}
            /\ ApiReqs(p) = 1
            /\ loc[p].resp2 = NoResp

C5_Witness ==
    \E p \in Procs :
        /\ Done(p) /\ First401(p) /\ loc[p].resp1.body = "junk"
        /\ loc[p].ret.kind = "composite" /\ loc[p].ret.cause = "tokenstatus"
        /\ loc[p].ret.body = "junk"

\* C6 as stated: the retried request carries the access token returned by the
\* call's own refresh, in every interleaving.
C6_Original ==
    \A p \in Procs :
        (IsCall(p) /\ ApiReqs(p) = 2) => loc[p].bearers[2] = loc[p].tokenResp.access

\* C6 amended: the retried request carries the access token that is in the
\* store when the retry reads it; this is the token returned by the call's
\* own refresh whenever no other refresh, SetAccessToken or SetTokens wrote
\* the access token between that refresh and the read.
C6_RetryBearsStoredToken ==
    \A p \in Procs :
        (IsCall(p) /\ Len(loc[p].reads) = 2) =>
            /\ loc[p].fresh => loc[p].reads[2] = loc[p].tokenResp.access
            /\ ApiReqs(p) = 2 =>
                   /\ loc[p].bearers[2] = loc[p].reads[2]
                   /\ loc[p].bearers[2] # ""
            /\ loc[p].pc = "e_build" => loc[p].token = loc[p].reads[2]

C6_Witness ==
    \E p \in Procs :
        /\ profile = "race" /\ IsCall(p) /\ ApiReqs(p) = 2 /\ loc[p].fresh
        /\ loc[p].bearers = <<"t0", "t1">>
        /\ \E q \in Procs \ {p} : loc[q].op \in {"doRequest", "SetAccessToken", "SetTokens"}

\* C7: after a network-level failure of the first API attempt (no response,
\* or a response whose body cannot be read) the call starts no refresh and
\* sends no second API request.
C7_Claim ==
    \A p \in Procs :
        (IsCall(p) /\ loc[p].resp1.kind \in {"transport", "readfail"}) =>
            /\ loc[p].tokenReqs = 0
            /\ ApiReqs(p) = 1

\* C8: a call sends a token-endpoint request only after a first status of 401
\* with auto-refresh enabled, a non-empty stored refresh token and both
\* credentials; a 401 response in any other case fails as a plain API error
\* after exactly one API request and no token-endpoint request.
C8_RefreshOnlyWhenEligible ==
    \A p \in Procs :
        IsCall(p) =>
            /\ (loc[p].tokenReqs > 0 \/ loc[p].pc \in {"r_send", "r_wait"}) =>
                   /\ loc[p].resp1.status = StatusUnauthorized
                   /\ FoundEligible(p)
                   /\ loc[p].currentRefreshToken # ""
            /\ (profile = "data" /\ loc[p].pc \in {"r_send", "r_wait"}) =>
                   refreshToken # ""
            /\ (loc[p].pc = "done" /\ First401(p) /\ ~FoundEligible(p)) =>
                   /\ loc[p].ret = APIError(StatusUnauthorized, loc[p].resp1.body)
                   /\ ApiReqs(p) = 1
                   /\ loc[p].tokenReqs = 0

C8_Witness ==
    \E p \in Procs :
        /\ Done(p) /\ First401(p) /\ autoRefreshOn401
        /\ (~loc[p].hasRefreshToken \/ clientSecret = "")
        /\ loc[p].ret.kind = "api" /\ loc[p].tokenReqs = 0

\* the answer to the final attempt of a finished call
Last(p) == IF loc[p].attempt = 2 THEN loc[p].resp2 ELSE loc[p].resp1
InSuccessRange(status) == status >= 200 /\ status <= 299

\* C9: a call succeeds only if the final attempt was answered with a status in
\* 200..299; a final answer with any other status fails with an error that
\* carries the status and the body of that final answer.
C9_FinalStatusDecides ==
    \A p \in Procs :
        Done(p) =>
            /\ loc[p].ret = NoErr =>
                   Last(p).kind = "full" /\ InSuccessRange(Last(p).status)
            /\ (Last(p).kind = "full" /\ ~InSuccessRange(Last(p).status)) =>
                   /\ loc[p].ret.kind \in {"api", "composite"}
                   /\ loc[p].ret.status = Last(p).status
                   /\ loc[p].ret.body = Last(p).body
            /\ ( /\ Last(p).kind = "full" /\ ~InSuccessRange(Last(p).status)
                 /\ loc[p].attempt = 2 ) => loc[p].ret.kind = "api"

C9_Witness ==
    \E p \in Procs :
        /\ Done(p) /\ loc[p].attempt = 2
        /\ loc[p].resp1.kind = "full" /\ loc[p].resp1.body = "{}"
        /\ loc[p].resp2.kind = "full" /\ loc[p].resp2.status = SuccessBelow
        /\ loc[p].ret = APIError(SuccessBelow, "junk")

\* the triples one write alone produces: the construction, a SetTokens or a
\* token response with a positive expires-in
WholeWrite ==
    \/ /\ accessToken \in InitAccessTokens
       /\ refreshToken \in InitRefreshTokens
       /\ tokenExpiry = 0
    \/ /\ accessToken \in SetAccessValues \ {""}
       /\ refreshToken \in SetRefreshValues
       /\ tokenExpiry > 0
    \/ /\ accessToken \in RespAccessValues
       /\ refreshToken \in RespRefreshValues
       /\ tokenExpiry > 0

\* C10 as stated: whenever the store can be read, the stored triple is wholly
\* the result of one write.
C10_Original == wHolders = {} => WholeWrite

\* p is inside a write section, past the assignments named
WroteAccess(p)  == loc[p].pc \in {"r_refresh", "r_expiry", "r_unlock",
                                  "f_refresh", "f_expiry", "f_unlock",
                                  "st_refresh", "st_expiry", "st_unlock", "sa_unlock"}
WroteRefresh(p) == loc[p].pc \in {"r_expiry", "r_unlock", "f_expiry", "f_unlock",
                                  "st_expiry", "st_unlock"}
WroteExpiry(p)  == loc[p].pc \in {"r_unlock", "f_unlock", "st_unlock"}
Written(p) == IF loc[p].op \in {"SetAccessToken", "SetTokens"}
              THEN loc[p].arg ELSE loc[p].tokenResp

\* C10 amended: every write section (SetAccessToken, SetTokens, a successful
\* refresh) runs wholly under the exclusive lock: a reader holding the shared
\* lock sees the store as the last completed write section left it, and a
\* writer finds its own assignments in place until it unlocks.  A refresh
\* replaces access token and refresh token together, and the expiry when
\* expires-in is positive.  The triple itself may stem from several writes.
C10_WritesAreAtomic ==
    /\ Cardinality(wHolders) <= 1
    /\ rHolders # {} => (wHolders = {} /\ store = committed)
    /\ wHolders = {} => store = committed
    /\ \A p \in Procs :
        /\ WroteAccess(p) => (p \in wHolders /\ accessToken = Written(p).access)
        /\ WroteRefresh(p) => refreshToken = Written(p).refresh
        /\ (WroteExpiry(p) /\ Written(p).expiresIn > 0) =>
               tokenExpiry = now + Written(p).expiresIn
        /\ (WroteExpiry(p) /\ Written(p).expiresIn <= 0) =>
               tokenExpiry = committed[3]

C10_Witness ==
    \E p \in Procs, q \in Procs :
        /\ loc[p].pc = "r_unlock" /\ loc[p].tokenResp.expiresIn > 0
        /\ store # committed
        /\ loc[q].pc \in {"e_rlock", "d_rlock", "ga_rlock", "gr_rlock"}

\* the refresh section of a call: from the token request to the callback
InRefresh(p) == loc[p].pc \in {"r_send", "r_wait", "r_lock", "r_access", "r_refresh",
                               "r_expiry", "r_unlock", "r_callback"}
\* the invoked callback has not yet returned
InCallback(p) == loc[p].pc \in {"c_rlock", "c_read", "c_lock", "c_write", "c_unlock"}
\* the call's automatic refresh has succeeded and refreshTokenInternal returned
RefreshReturned(p) ==
    /\ loc[p].tokenReqs = 1 /\ loc[p].refreshErr.kind = "nil"
    /\ ~InRefresh(p) /\ ~InCallback(p)
    /\ TokenErr(loc[p].tresp).kind = "nil"

\* C11: with a callback registered, a call invokes it exactly once when its
\* automatic refresh succeeded and not at all before that or when the refresh
\* failed; at the invocation the call has written the store and has sent only
\* its first API request, and the arguments are the access token, refresh
\* token and expires-in of the call's token response.
C11_CallbackOncePerRefresh ==
    \A p \in Procs :
        (IsCall(p) /\ onTokenRefresh) =>
            /\ loc[p].cbCalls = Len(loc[p].cbArgs)
            /\ (loc[p].tokenReqs = 0 \/ InRefresh(p)) => loc[p].cbCalls = 0
            /\ loc[p].refreshErr.kind # "nil" => loc[p].cbCalls = 0
            /\ TokenErr(loc[p].tresp).kind # "nil" => loc[p].cbCalls = 0
            /\ RefreshReturned(p) =>
                   /\ loc[p].cbCalls = 1
                   /\ loc[p].cbArgs = <<ParseToken(loc[p].tresp.body)>>
                   /\ loc[p].cbAt = << <<1, 1>> >>
            /\ ApiReqs(p) = 2 => loc[p].cbCalls = 1
            /\ Len(loc[p].reads) = 2 => loc[p].cbCalls = 1

C11_Witness ==
    \E p \in Procs :
        /\ Done(p) /\ onTokenRefresh /\ ApiReqs(p) = 2
        /\ loc[p].cbCalls = 1
        /\ loc[p].cbArgs = <<[access |-> "t1", refresh |-> "r1", expiresIn |-> 2]>>

\* the operations on the token store other than doRequest
AuthOps == {"AuthorizeWithCode", "AuthorizeWithRefreshToken"}
ManualOps == AuthOps \cup {"SetAccessToken", "SetTokens"}

\* C12: AuthorizeWithCode, AuthorizeWithRefreshToken, SetAccessToken and
\* SetTokens never invoke the callback; with a callback registered, every
\* successful automatic refresh is followed by one invocation, so that the
\* invocations so far are the successful automatic refreshes so far less those
\* whose callback is about to run.  Without a callback nothing is invoked.
C12_CallbackOnlyOnAutoRefresh ==
    /\ \A p \in Procs : loc[p].op # "doRequest" => loc[p].cbCalls = 0
    /\ onTokenRefresh =>
           callbacks + Cardinality({p \in Procs : loc[p].pc = "r_callback"}) = refreshes
    /\ ~onTokenRefresh => callbacks = 0

C12_Witness ==
    \E p \in Procs :
        /\ loc[p].op \in AuthOps /\ loc[p].pc = "done" /\ loc[p].ret = NoErr
        /\ onTokenRefresh /\ refreshes = 1 /\ callbacks = 1

\* C13: refreshes are not coordinated between calls.  Whatever the other
\* callers do, a call that got a 401 and found the refresh token and the
\* credentials sends its own token request, and invokes the callback when
\* that refresh succeeds; a call ends a 401 without a token request only if
\* it found the stored refresh token empty.
C13_NoDeduplication ==
    \A p \in Procs :
        IsCall(p) =>
            /\ (First401(p) /\ FoundEligible(p) /\ loc[p].pc # "r_send") =>
                   loc[p].tokenReqs = 1 /\ Len(loc[p].tokenURLs) = 1
            /\ ( /\ loc[p].pc = "done" /\ First401(p) /\ autoRefreshOn401
                 /\ HasCredentials /\ loc[p].tokenReqs = 0 ) => refreshToken = ""
            /\ (onTokenRefresh /\ RefreshReturned(p)) => loc[p].cbCalls = 1

C13_Witness ==
    \E p \in Procs, q \in Procs :
        /\ p # q /\ IsCall(p) /\ IsCall(q)
        /\ loc[p].tokenReqs = 1 /\ loc[q].tokenReqs = 1
        /\ loc[p].cbCalls = 1 /\ loc[q].cbCalls = 1
        /\ callbacks = 2

\* a network call of p is in flight
OnNetwork(p) == loc[p].pc \in {"e_wait", "r_wait", "f_wait"}
\* p waits for the shared lock
WaitsRLock(p) == loc[p].pc \in {"ga_rlock", "gr_rlock", "e_rlock", "d_rlock"}

\* C14: a caller whose network call (API request or token request) is in
\* flight holds the token lock in neither mode; so whenever a caller cannot
\* take the shared lock, the holder in its way is inside a write section and
\* not on the network.
C14_NoLockAcrossNetwork ==
    /\ \A p \in Procs : OnNetwork(p) => (p \notin rHolders /\ p \notin wHolders)
    /\ \A p \in Procs :
        (WaitsRLock(p) /\ ~CanRLock(p)) =>
            \A q \in wHolders : ~OnNetwork(q) /\ (WroteAccess(q) \/ loc[q].before = store)

C14_Witness ==
    \E p \in Procs, q \in Procs :
        /\ loc[p].pc \in {"r_wait", "f_wait", "e_wait"}
        /\ loc[q].pc = "ga_read" /\ q \in rHolders

\* C15: AuthorizeWithCode and AuthorizeWithRefreshToken on a client whose
\* client id or client secret is empty return the configuration error at
\* once, without a token request and without a write to the store.
C15_AuthorizeNeedsCredentials ==
    \A p \in Procs :
        (loc[p].op \in AuthOps /\ ~HasCredentials) =>
            /\ loc[p].pc = "done"
            /\ loc[p].ret = Err("config")
            /\ loc[p].tokenReqs = 0 /\ loc[p].tokenURLs = <<>>
            /\ loc[p].writes = 0
            /\ store = committed

C15_Witness ==
    \E p \in Procs :
        /\ loc[p].op = "AuthorizeWithCode" /\ loc[p].pc = "done"
        /\ clientID # "" /\ clientSecret = ""
        /\ loc[p].ret = Err("config") /\ accessToken = "t0"

\* C16 as stated: after a successful AuthorizeWithCode or
\* AuthorizeWithRefreshToken the store holds the access token and the refresh
\* token of the response and an expiry computed from its expires_in.
C16_Original ==
    \A p \in Procs :
        (loc[p].op \in AuthOps /\ loc[p].pc = "done" /\ loc[p].ret = NoErr) =>
            /\ accessToken = loc[p].tresp.body.access
            /\ refreshToken = loc[p].tresp.body.refresh
            /\ tokenExpiry = now + loc[p].tresp.body.expiresIn

\* C16 amended: after a successful AuthorizeWithCode or
\* AuthorizeWithRefreshToken the store holds the access token and the refresh
\* token of the response; the expiry is the time of the write plus expires_in
\* when expires_in is positive and is left as it was otherwise.
\* GetAccessToken and GetRefreshToken return what the store holds.
C16_AuthorizeStoresResponse ==
    /\ \A p \in Procs :
        (loc[p].op \in AuthOps /\ loc[p].pc = "done" /\ loc[p].ret = NoErr) =>
            /\ loc[p].tresp.kind = "full" /\ loc[p].tresp.status = StatusOK
            /\ loc[p].tresp.body.json
            /\ accessToken = loc[p].tresp.body.access
            /\ refreshToken = loc[p].tresp.body.refresh
            /\ tokenExpiry = (IF loc[p].tresp.body.expiresIn > 0
                              THEN now + loc[p].tresp.body.expiresIn
                              ELSE loc[p].before[3])
            /\ store = committed
    /\ \A p \in Procs :
        /\ (loc[p].op = "GetAccessToken" /\ loc[p].pc = "done") =>
               loc[p].readVal = accessToken /\ store = committed
        /\ (loc[p].op = "GetRefreshToken" /\ loc[p].pc = "done") =>
               loc[p].readVal = refreshToken /\ store = committed

C16_Witness ==
    \E p \in Procs :
        /\ loc[p].op = "AuthorizeWithRefreshToken" /\ loc[p].pc = "done"
        /\ loc[p].ret = NoErr
        /\ loc[p].before = <<"t0", "r0", 0>>
        /\ store = <<"t1", "r1", now + 2>>

\* the answers with which a token request fails
TokenFailure(resp) ==
    \/ resp.kind \in {"transport", "readfail"}
    \/ resp.kind = "full" /\ (resp.status # StatusOK \/ ~resp.body.json)

\* C17: an operation sends at most one request to the token endpoint.  A
\* token exchange that fails (no response, unreadable body, status other than
\* 200, unparsable body) ends at once with the error of that failure and
\* without a write; a failed automatic refresh ends the call with that error
\* as the cause; a successful one has sent exactly one request.
C17_OneTokenRequestNoRetry ==
    \A p \in Procs :
        /\ loc[p].tokenReqs \in {0, 1}
        /\ Len(loc[p].tokenURLs) = loc[p].tokenReqs
        /\ (loc[p].tresp.kind # "none" \/ loc[p].pc \in {"f_wait", "r_wait"}) =>
               loc[p].tokenReqs = 1
        /\ (loc[p].op \in AuthOps /\ TokenFailure(loc[p].tresp)) =>
               /\ loc[p].pc = "done"
               /\ loc[p].ret = TokenErr(loc[p].tresp)
               /\ loc[p].ret.kind \in {"fetch", "readtoken", "tokenstatus", "parsetoken"}
               /\ loc[p].writes = 0
        /\ (loc[p].op = "doRequest" /\ TokenFailure(loc[p].tresp)) =>
               /\ loc[p].pc = "done"
               /\ loc[p].refreshErr = TokenErr(loc[p].tresp)
               /\ loc[p].ret.cause = TokenErr(loc[p].tresp).kind
               /\ loc[p].writes = 0
        /\ (loc[p].op \in AuthOps /\ loc[p].pc = "done" /\ loc[p].ret.kind # "config") =>
               loc[p].tokenReqs = 1

C17_Witness ==
    \E p \in Procs :
        /\ loc[p].op = "AuthorizeWithRefreshToken" /\ loc[p].pc = "done"
        /\ loc[p].tokenReqs = 1
        /\ loc[p].tresp.kind = "full" /\ loc[p].tresp.status = StatusUnauthorized
        /\ loc[p].ret = Err("tokenstatus")

\* C18: when every caller keeps running, every network call returns and the
\* lock is granted to a caller that can take it again and again, every
\* doRequest call under way eventually returns, with success or an error.
C18_Terminates ==
    \A p \in Procs : (loc[p].op = "doRequest") ~> (loc[p].pc = "done")

C18_Witness ==
    \E p \in Procs :
        /\ IsCall(p) /\ loc[p].pc = "e_rlock" /\ loc[p].attempt = 2
        /\ wHolders # {} /\ ~CanRLock(p)

\* the transitions of the machine as the specification draws it
MachineEdges ==
    { <<"Start", "Sent">>, <<"Sent", "Success">>, <<"Sent", "Failure">>,
      <<"Sent", "NeedsRefresh">>, <<"NeedsRefresh", "Refreshed">>,
      <<"Refreshed", "Retried">>, <<"Retried", "Success">>,
      <<"Retried", "Failure">> }
\* the failures before a request is sent and the failure of the refresh
EarlyFailures ==
    { <<"Start", "Failure">>, <<"NeedsRefresh", "Failure">>,
      <<"Refreshed", "Failure">> }
IsPath(tr, edges) ==
    /\ tr # <<>> /\ tr[1] = "Start"
    /\ \A i \in 1..(Len(tr) - 1) : <<tr[i], tr[i + 1]>> \in edges
    /\ \A i \in 1..Len(tr), j \in 1..Len(tr) : i # j => tr[i] # tr[j]

\* C19 as stated: the stages of every doRequest call form a path of the
\* machine Start -> Sent -> {Success, Failure, NeedsRefresh -> Refreshed ->
\* Retried -> {Success, Failure}}.
C19_Original == \A p \in Procs : IsCall(p) => IsPath(loc[p].trace, MachineEdges)

\* C19 amended: the stages form a path of that machine extended by three
\* transitions to Failure: from Start (empty access token, or a request that
\* cannot be built), from NeedsRefresh (the refresh failed) and from
\* Refreshed (the store holds an empty access token at the retry).  No stage
\* is visited twice, a returned call is in Success or Failure according to
\* its result, and a call under way is in neither.
C19_TraceIsPath ==
    \A p \in Procs :
        IsCall(p) =>
            /\ IsPath(loc[p].trace, MachineEdges \cup EarlyFailures)
            /\ loc[p].pc = "done" =>
                   loc[p].trace[Len(loc[p].trace)] = Terminal(loc[p].ret)
            /\ loc[p].pc # "done" =>
                   loc[p].trace[Len(loc[p].trace)] \notin {"Success", "Failure"}
            /\ ("Sent" \in {loc[p].trace[i] : i \in 1..Len(loc[p].trace)}) = (ApiReqs(p) >= 1)
            /\ ("Retried" \in {loc[p].trace[i] : i \in 1..Len(loc[p].trace)}) = (ApiReqs(p) = 2)
            /\ ("NeedsRefresh" \in {loc[p].trace[i] : i \in 1..Len(loc[p].trace)})
                   = (loc[p].tokenReqs = 1 \/ loc[p].pc = "r_send")

C19_Witness ==
    \E p \in Procs :
        /\ Done(p)
        /\ loc[p].trace = <<"Start", "Sent", "NeedsRefresh", "Refreshed", "Retried",
                            "Success">>

\* C20: every request to the token endpoint (authorization-code exchange,
\* manual refresh, automatic refresh) goes to the client's base URL followed
\* by /oauth/token, as every API request goes to the base URL followed by its
\* path.
C20_Claim ==
    \A p \in Procs :
        /\ \A i \in 1..Len(loc[p].tokenURLs) :
               loc[p].tokenURLs[i] = BaseURL \o "/oauth/token"
        /\ \A i \in 1..Len(loc[p].apiURLs) :
               loc[p].apiURLs[i] = BaseURL \o loc[p].req.path

\* C21: on a client without client id or client secret, a doRequest call
\* that finds a non-empty access token and can build its request sends
\* exactly one API request and no token request, and returns what the
\* answer to that request gives: never the configuration error of the
\* refresh, never a composite error.
C21_NoCredentialsNeeded ==
    \A p \in Procs :
        ( /\ IsCall(p) /\ ~HasCredentials
          /\ Len(loc[p].reads) >= 1 /\ loc[p].reads[1] # "" /\ loc[p].req.body # "bad" ) =>
            /\ loc[p].tokenReqs = 0 /\ ~InRefresh(p)
            /\ ApiReqs(p) <= 1
            /\ loc[p].ret.kind \notin {"config", "composite"}
            /\ loc[p].ret.cause # "config"
            /\ loc[p].pc = "done" =>
                   /\ ApiReqs(p) = 1
                   /\ loc[p].ret = FinalResult(ExecReturn(loc[p].resp1)[3],
                                               ExecReturn(loc[p].resp1)[1],
                                               ExecReturn(loc[p].resp1)[2],
                                               loc[p].req.result)

C21_Witness ==
    \E p \in Procs :
        /\ Done(p) /\ clientID = "" /\ clientSecret = ""
        /\ autoRefreshOn401 /\ loc[p].hasRefreshToken
        /\ First401(p) /\ loc[p].ret.kind = "api" /\ ApiReqs(p) = 1

\* a finished Create, Upsert or List whose request or options gave no
\* LocationID, on a client that has a location id
UsesDefaultLocation(p) ==
    /\ loc[p].service \in {"Create", "Upsert", "List"}
    /\ loc[p].pc = "done" /\ loc[p].given = "" /\ locationID # ""
    /\ accessToken # ""

\* C22: such a call is sent, and it is sent with the client's location id: in
\* the body of Create and Upsert, in the query of List.
C22_Claim ==
    \A p \in Procs :
        UsesDefaultLocation(p) =>
            /\ ApiReqs(p) >= 1
            /\ loc[p].req.locationId = locationID
            /\ loc[p].service = "List" =>
                   loc[p].apiURLs[1] = BaseURL \o "/contacts/?locationId=" \o locationID

\* the call has decided whether to send its first API request
PastFirstSend(p) ==
    IsCall(p) /\ Len(loc[p].reads) >= 1 /\ ~(loc[p].pc = "e_build" /\ loc[p].attempt = 1)

\* C23: the expiry is not looked at: whether it is unset, ahead or past, a
\* doRequest call that read a non-empty access token and can build its request
\* sends it, and no call asks for a token before it has sent an API request.
C23_ExpiryNotEnforced ==
    \A p \in Procs :
        /\ (PastFirstSend(p) /\ loc[p].reads[1] # "" /\ loc[p].req.body # "bad") =>
               /\ ApiReqs(p) >= 1
               /\ loc[p].bearers[1] = loc[p].reads[1]
        /\ (IsCall(p) /\ loc[p].tokenReqs > 0) => ApiReqs(p) >= 1

\* a call made after the expiry has passed was sent, was answered 200 and
\* asked for no token
C23_Witness ==
    \E p \in Procs :
        /\ Done(p) /\ tokenExpiry # 0 /\ tokenExpiry < now
        /\ ApiReqs(p) = 1 /\ loc[p].tokenReqs = 0 /\ loc[p].ret = NoErr

\* the final attempt of a finished call was answered in full with a status
\* in 200..299
FinalSuccess(p) == Done(p) /\ Last(p).kind = "full" /\ InSuccessRange(Last(p).status)

\* C24: the body is deserialized into the result target exactly when the final
\* status is in 200..299, a target was given and the body is not empty; a
\* parse failure makes the call fail with the parse error; an empty body with
\* a status in 200..299 is a success that leaves the target untouched.
C24_ParseOnlyNonEmptySuccess ==
    \A p \in Procs :
        Done(p) =>
            /\ loc[p].target # "untouched" <=>
                   FinalSuccess(p) /\ loc[p].req.result /\ Last(p).body # ""
            /\ loc[p].target = "failed" <=> loc[p].ret = Err("parse")
            /\ loc[p].target = "filled" => loc[p].ret = NoErr /\ Parses(Last(p).body)
            /\ (FinalSuccess(p) /\ Last(p).body = "") =>
                   loc[p].ret = NoErr /\ loc[p].target = "untouched"

\* a call with a result target was answered 200 with an empty body and
\* succeeded
C24_Witness ==
    \E p \in Procs :
        /\ FinalSuccess(p) /\ loc[p].req.result /\ Last(p).body = ""
        /\ loc[p].ret = NoErr /\ loc[p].target = "untouched"

\* the cases in which a finished doRequest call is said to perform no refresh
FirstNot401(p)     == loc[p].resp1.kind = "full" /\ loc[p].resp1.status # StatusUnauthorized
NetworkFailure(p)  == loc[p].resp1.kind \in {"transport", "readfail"}
NoTokenRead(p)     == loc[p].reads[1] = ""
\* the call left the token state and the callback alone
NoTokenEffect(p) ==
    /\ loc[p].tokenReqs = 0 /\ loc[p].writes = 0 /\ loc[p].cbCalls = 0
    /\ profile # "race" => <<accessToken, refreshToken, tokenExpiry>> = committed

\* C25: a doRequest call whose first response is not 401, or that is not
\* eligible for a refresh, or that read an empty token, or whose first attempt
\* failed on the network, performs no refresh: it leaves access token, refresh
\* token and expiry unchanged and does not invoke the callback.
C25_Claim ==
    \A p \in Procs :
        ( /\ Done(p)
          /\ \/ FirstNot401(p)
             \/ ~FoundEligible(p)
             \/ NoTokenRead(p)
             \/ NetworkFailure(p) ) => NoTokenEffect(p)

\* C26: a token exchange or refresh that fails - no response, unreadable
\* body, status other than 200 or unparsable body - takes no exclusive lock,
\* writes nothing, so that access token, refresh token and expiry are as they
\* were before the attempt, and does not invoke the callback; this holds for
\* the manual operations and for the automatic refresh alike.
C26_FailedExchangeNoEffect ==
    \A p \in Procs :
        TokenFailure(loc[p].tresp) =>
            /\ loc[p].pc = "done" /\ loc[p].ret # NoErr
            /\ loc[p].writes = 0 /\ loc[p].before = <<>>
            /\ loc[p].cbCalls = 0
            /\ p \notin wHolders
            /\ profile # "race" => <<accessToken, refreshToken, tokenExpiry>> = committed

\* an automatic refresh was answered 200 with a body that is not JSON, on a
\* client with a callback
C26_Witness ==
    \E p \in Procs :
        /\ Done(p) /\ onTokenRefresh
        /\ loc[p].tresp.kind = "full" /\ loc[p].tresp.status = StatusOK
        /\ ~loc[p].tresp.body.json
        /\ loc[p].ret.kind = "composite" /\ loc[p].ret.cause = "parsetoken"
        /\ <<accessToken, refreshToken, tokenExpiry>> = committed

\* C27: whenever the exclusive lock is free and the last writer was not
\* SetAccessToken, the stored (access token, refresh token) pair is the pair
\* of that one writer - the construction, one SetTokens call or one token
\* response - however refreshes and SetTokens calls interleave; and a writer
\* about to release the lock sees its own pair in the store.
C27_PairFromOneWriter ==
    /\ (wHolders = {} /\ lastWrite.by # "SetAccessToken") =>
           <<accessToken, refreshToken>> = lastWrite.pair
    /\ \A p \in Procs :
           /\ loc[p].pc = "st_unlock" =>
                  <<accessToken, refreshToken>> = <<loc[p].arg.access, loc[p].arg.refresh>>
           /\ loc[p].pc \in {"r_unlock", "f_unlock"} =>
                  <<accessToken, refreshToken>> =
                      <<loc[p].tokenResp.access, loc[p].tokenResp.refresh>>

\* a refresh has written its pair while a SetTokens call with another pair
\* was under way, and that call waits for the lock
C27_Witness ==
    \E p, q \in Procs :
        /\ loc[p].op = "doRequest" /\ loc[p].pc = "r_unlock"
        /\ loc[q].op = "SetTokens" /\ loc[q].pc = "st_lock"
        /\ <<accessToken, refreshToken>> = <<"t1", "r1">>
        /\ <<loc[q].arg.access, loc[q].arg.refresh>> = <<"t2", "r2">>

\* a token response with status 200 is written as it is, an omitted member as
\* the empty string
StoredAsGiven ==
    \A p \in Procs :
        /\ loc[p].pc \in {"r_unlock", "f_unlock"} =>
               /\ loc[p].tresp.status = StatusOK
               /\ accessToken = loc[p].tresp.body.access
               /\ refreshToken = loc[p].tresp.body.refresh
        /\ (wHolders = {} /\ lastWrite.by \in {"refreshTokenInternal", "fetchToken"}) =>
               <<accessToken, refreshToken>> = lastWrite.pair

\* C28 as stated: a token response with status 200 is stored as it is; the
\* retry of a call whose token response omitted access_token fails with the
\* "no access token" error and sends no second API request; a 401 that comes
\* after a token response without refresh_token was stored starts no refresh.
C28_Original ==
    /\ StoredAsGiven
    /\ \A p \in Procs :
           (Done(p) /\ RefreshReturned(p) /\ loc[p].tokenResp.access = "") =>
               loc[p].ret = Err("notoken") /\ ApiReqs(p) = 1
    /\ \A p \in Procs :
           ( /\ Done(p) /\ First401(p) /\ loc[p].writes = 0
             /\ profile # "race"
             /\ lastWrite.by \in {"refreshTokenInternal", "fetchToken"}
             /\ lastWrite.pair[2] = "" ) =>
               loc[p].tokenReqs = 0 /\ loc[p].ret = APIError(StatusUnauthorized, loc[p].resp1.body)

\* C28 amended: a token response with status 200 is stored as it is.  A call
\* that finds the stored refresh token empty at its refresh check - as it is
\* after such a response without refresh_token, until some write stores one -
\* starts no refresh and returns the API error of its 401.  The retry after a
\* refresh reads the store anew: when the response omitted access_token and
\* no other writer has stored an access token since, it reads the empty token
\* and fails with the "no access token" error without a second API request.
C28_StoredUnconditionally ==
    /\ StoredAsGiven
    /\ \A p \in Procs :
           (Done(p) /\ RefreshReturned(p) /\ loc[p].tokenResp.access = "") =>
               /\ loc[p].fresh => loc[p].reads[2] = ""
               /\ loc[p].reads[2] = "" => loc[p].ret = Err("notoken") /\ ApiReqs(p) = 1
               /\ loc[p].reads[2] # "" => ApiReqs(p) = 2 /\ loc[p].bearers[2] = loc[p].reads[2]
    /\ \A p \in Procs :
           ( /\ Done(p) /\ First401(p) /\ loc[p].writes = 0
             /\ profile # "race"
             /\ lastWrite.by \in {"refreshTokenInternal", "fetchToken"}
             /\ lastWrite.pair[2] = "" ) =>
               loc[p].tokenReqs = 0 /\ loc[p].ret = APIError(StatusUnauthorized, loc[p].resp1.body)
    /\ \A p \in Procs :
           (Done(p) /\ First401(p) /\ loc[p].attempt = 1 /\ autoRefreshOn401
                    /\ loc[p].currentRefreshToken = "") =>
               /\ ~loc[p].hasRefreshToken /\ loc[p].tokenReqs = 0
               /\ loc[p].ret = APIError(StatusUnauthorized, loc[p].resp1.body)

\* a token exchange whose response omitted refresh_token was stored, and the
\* next call, answered 401 on a client with auto-refresh and credentials,
\* started no refresh
C28_Witness ==
    \E p \in Procs :
        /\ Done(p) /\ First401(p) /\ autoRefreshOn401 /\ HasCredentials
        /\ lastWrite.by = "fetchToken" /\ lastWrite.pair = <<"t1", "">>
        /\ loc[p].bearers = <<"t1">> /\ loc[p].tokenReqs = 0
        /\ loc[p].ret.kind = "api"

\* p is in the callback, about to acquire the lock for the call it makes
CallbackAcquires(p) == loc[p].pc \in {"c_rlock", "c_lock"}

\* C29: the call that invokes the callback holds the token lock neither at
\* the invocation nor when the callback asks for the lock, so the callback's
\* GetAccessToken, GetRefreshToken, SetAccessToken or SetTokens gets the lock
\* as soon as no other caller holds it; and a call whose callback was invoked
\* has returned only after the callback's call was finished.
C29_CallbackOutsideLock ==
    \A p \in Procs :
        /\ (loc[p].pc = "r_callback" \/ CallbackAcquires(p)) =>
               p \notin wHolders /\ p \notin rHolders
        /\ (loc[p].pc = "c_lock" /\ wHolders \ {p} = {} /\ rHolders \ {p} = {}) => CanLock(p)
        /\ (loc[p].pc = "c_rlock" /\ wHolders \ {p} = {}) => CanRLock(p)
        /\ (Done(p) /\ loc[p].cbCalls = 1 /\ callbackCalls # "nothing") =>
               loc[p].nested = <<callbackCalls>>

\* a call whose callback called SetTokens on the client has finished with
\* success
C29_Witness ==
    \E p \in Procs :
        /\ Done(p) /\ callbackCalls = "SetTokens" /\ loc[p].nested = <<"SetTokens">>
        /\ loc[p].cbCalls = 1 /\ lastWrite.by = "SetTokens"
        /\ ApiReqs(p) = 2 /\ loc[p].ret = NoErr
        /\ wHolders = {} /\ rHolders = {}

\* no call is under way on the client
AllFinished == \A p \in Procs : loc[p].pc \in {"idle", "done"}

\* C30: callbacks come in the order of the writes: when no call is under way
\* and the last write of the store was an automatic refresh, the (access
\* token, refresh token) pair passed to the last callback is the stored pair.
C30_Claim ==
    (AllFinished /\ onTokenRefresh /\ lastWrite.by = "refreshTokenInternal") =>
        lastCb = <<accessToken, refreshToken>>

\* C31: an automatic refresh presents the refresh token the call read at its
\* refresh check, whatever the store holds when the request is sent; a call
\* whose refresh failed returns the composite error and has sent one API
\* request only, whatever access token the store holds by then.
C31_PresentsTokenReadAtCheck ==
    \A p \in Procs :
        /\ (IsCall(p) /\ loc[p].tokenReqs = 0) => loc[p].presented = <<>>
        /\ (IsCall(p) /\ loc[p].tokenReqs = 1) =>
               /\ loc[p].presented = <<loc[p].currentRefreshToken>>
               /\ loc[p].hasRefreshToken /\ loc[p].currentRefreshToken # ""
        /\ (IsCall(p) /\ loc[p].tokenReqs = 1 /\ loc[p].refreshErr.kind # "nil") =>
               /\ loc[p].pc = "done"
               /\ loc[p].ret.kind = "composite"
               /\ ApiReqs(p) = 1 /\ Len(loc[p].reads) = 1

\* two concurrent calls presented the same refresh token; the refresh of one
\* failed and it returned the composite error although the other had stored
\* the access token of its successful refresh
C31_Witness ==
    \E p, q \in Procs :
        /\ p # q /\ Done(p) /\ IsCall(q)
        /\ loc[p].presented = <<"r0">> /\ loc[q].presented = <<"r0">>
        /\ loc[p].ret.kind = "composite" /\ ApiReqs(p) = 1
        /\ loc[q].writes = 1 /\ loc[q].tokenResp.access = "t1"
        /\ accessToken = "t1" /\ refreshToken = "r1" /\ wHolders = {}

\* the positions between Lock and Unlock, between RLock and RUnlock, and the
\* positions at which a caller asks for the lock
WriteSection == {"sa_write", "sa_unlock", "st_access", "st_refresh", "st_expiry",
                 "st_unlock", "r_access", "r_refresh", "r_expiry", "r_unlock",
                 "f_access", "f_refresh", "f_expiry", "f_unlock", "c_write", "c_unlock"}
ReadSection  == {"ga_read", "gr_read", "e_read", "d_read", "c_read"}
AsksLock     == {"sa_lock", "st_lock", "r_lock", "f_lock", "c_lock"}
AsksRLock    == {"ga_rlock", "gr_rlock", "e_rlock", "d_rlock", "c_rlock"}
\* p asks for the lock and cannot have it now
Blocked(p) ==
    \/ loc[p].pc \in AsksLock /\ ~CanLock(p)
    \/ loc[p].pc \in AsksRLock /\ ~CanRLock(p)

\* C32: a caller holds the token lock exactly inside its write and read
\* sections: it holds nothing when it asks for the lock, on the network, in
\* the callback's invocation, and when it has returned, by whatever path.  The
\* lock has one writer or readers only.  Whenever calls are under way, one of
\* them is not waiting for the lock: no interleaving deadlocks.
C32_NoDeadlock ==
    /\ \A p \in Procs :
           /\ p \in wHolders <=> loc[p].pc \in WriteSection
           /\ p \in rHolders <=> loc[p].pc \in ReadSection
    /\ \A p, q \in wHolders : p = q
    /\ wHolders # {} => rHolders = {}
    /\ (\E p \in Procs : loc[p].pc # "idle") =>
           \E p \in Procs : loc[p].pc # "idle" /\ ~Blocked(p)

\* a SetTokens call waits for the lock that a doRequest call holds for
\* reading
C32_Witness ==
    \E p, q \in Procs :
        /\ loc[p].op = "SetTokens" /\ Blocked(p)
        /\ loc[q].op = "doRequest" /\ q \in rHolders

\* C33: at the end of its write section, SetAccessToken has changed the
\* access token and left refresh token and expiry as they were when it took
\* the lock; SetTokens and a successful token response have replaced access
\* token and refresh token, and have left the expiry as it was when their
\* expires-in is zero or negative.
C33_FrameOfWrites ==
    \A p \in Procs :
        /\ loc[p].pc = "sa_unlock" =>
               /\ accessToken = loc[p].arg.access
               /\ refreshToken = loc[p].before[2]
               /\ tokenExpiry = loc[p].before[3]
        /\ loc[p].pc \in {"st_unlock", "r_unlock", "f_unlock"} =>
               /\ accessToken = Written(p).access
               /\ refreshToken = Written(p).refresh
               /\ Written(p).expiresIn <= 0 => tokenExpiry = loc[p].before[3]
               /\ Written(p).expiresIn > 0 => tokenExpiry = now + Written(p).expiresIn

\* SetTokens with a negative expires-in has replaced both tokens of a store
\* whose expiry was set, and the expiry is as before
C33_Witness ==
    \E p \in Procs :
        /\ loc[p].pc = "st_unlock" /\ loc[p].arg.expiresIn < 0
        /\ loc[p].before[3] > 0 /\ tokenExpiry = loc[p].before[3]
        /\ loc[p].before[1] # accessToken /\ loc[p].before[2] # refreshToken

\* the method was called without an argument it requires
MissingArgument(p) ==
    \/ loc[p].service \in {"Create", "Upsert", "Get", "Update", "Delete",
                           "GetByBusinessID", "AddTags", "RemoveTags"}
       /\ loc[p].given = ""
    \/ loc[p].service \in {"AddTags", "RemoveTags"} /\ loc[p].tags = <<>>

\* C34: a Contacts method called without a required argument - Create or
\* Upsert without LocationID, Get, Update, Delete, AddTags or RemoveTags
\* without contact id, GetByBusinessID without business id, AddTags or
\* RemoveTags without a tag - returns an error, has sent no API request and no
\* token request, and has left the token state and the lock alone, whatever
\* the token state is.
C34_RequiredArguments ==
    \A p \in Procs :
        (loc[p].service # "" /\ MissingArgument(p)) =>
            /\ loc[p].pc = "done" /\ loc[p].op = "Contacts"
            /\ loc[p].ret # NoErr /\ loc[p].ret.kind \notin {"notoken", "api", "composite"}
            /\ loc[p].wire = <<>> /\ loc[p].bearers = <<>> /\ loc[p].reads = <<>>
            /\ loc[p].tokenReqs = 0 /\ loc[p].writes = 0 /\ loc[p].cbCalls = 0
            /\ store = committed /\ wHolders = {} /\ rHolders = {}

\* RemoveTags with a contact id and no tag was rejected on a client that
\* holds an access token
C34_Witness ==
    \E p \in Procs :
        /\ loc[p].service = "RemoveTags" /\ loc[p].given = "c1" /\ loc[p].tags = <<>>
        /\ loc[p].ret = Err("at least one tag is required")
        /\ accessToken # "" /\ loc[p].wire = <<>>

\* the path of List for the options of the model, written out
ListPathTable(L, query, limit) ==
    IF L = "" /\ query = "" /\ limit <= 0 THEN "/contacts/"
    ELSE IF L = "L1" /\ query = "" /\ limit <= 0 THEN "/contacts/?locationId=L1"
    ELSE IF L = "" /\ query = "a b" /\ limit <= 0 THEN "/contacts/?query=a+b"
    ELSE IF L = "" /\ query = "" /\ limit = 25 THEN "/contacts/?limit=25"
    ELSE IF L = "L1" /\ query = "a b" /\ limit <= 0
         THEN "/contacts/?locationId=L1&query=a+b"
    ELSE IF L = "L1" /\ query = "" /\ limit = 25 THEN "/contacts/?limit=25&locationId=L1"
    ELSE IF L = "" /\ query = "a b" /\ limit = 25 THEN "/contacts/?limit=25&query=a+b"
    ELSE "/contacts/?limit=25&locationId=L1&query=a+b"

\* verb and path of the external API for the call of p
ApiVerbPath(p) ==
    LET s == loc[p].service
        id == loc[p].given
    IN CASE s = "Create"          -> <<"POST", "/contacts/">>
         [] s = "Get"             -> <<"GET", "/contacts/" \o id>>
         [] s = "Update"          -> <<"PUT", "/contacts/" \o id>>
         [] s = "Delete"          -> <<"DELETE", "/contacts/" \o id>>
         [] s = "Upsert"          -> <<"POST", "/contacts/upsert">>
         [] s = "List"            -> <<"GET", ListPathTable(id, loc[p].opts.query,
                                                             loc[p].opts.limit)>>
         [] s = "GetByBusinessID" -> <<"GET", "/contacts/business/" \o id>>
         [] s = "AddTags"         -> <<"POST", "/contacts/" \o id \o "/tags">>
         [] s = "RemoveTags"      -> <<"DELETE", "/contacts/" \o id \o "/tags">>

\* C35: every API request a Contacts method sends has the verb and the path
\* of the external API for that method - for List the path "/contacts/" with
\* exactly the options that are set as its query - and is sent to the base
\* URL; the request sent again after a refresh has the verb, the path and the
\* body of the first.
C35_VerbAndPath ==
    \A p \in Procs :
        (loc[p].service # "" /\ loc[p].op = "doRequest") =>
            /\ Len(loc[p].wire) = ApiReqs(p)
            /\ \A i \in 1..Len(loc[p].wire) :
                   /\ <<loc[p].wire[i][1], loc[p].wire[i][2]>> = ApiVerbPath(p)
                   /\ loc[p].wire[i] = loc[p].wire[1]
                   /\ loc[p].apiURLs[i] = BaseURL \o ApiVerbPath(p)[2]
            /\ (loc[p].service \in {"Get", "Delete", "GetByBusinessID", "List"}) <=>
                   loc[p].req.body = "nil"

\* a List call with all three options set was answered 401, refreshed and
\* was sent again
C35_Witness ==
    \E p \in Procs :
        /\ Done(p) /\ loc[p].service = "List"
        /\ loc[p].wire = << <<"GET", "/contacts/?limit=25&locationId=L1&query=a+b", "nil">>,
                            <<"GET", "/contacts/?limit=25&locationId=L1&query=a+b", "nil">> >>
        /\ loc[p].tokenReqs = 1 /\ loc[p].ret = NoErr

\* C36: a Create, Get, Update or Upsert that returns no error returns a
\* contact, also when the answer is 2xx with an empty body or with JSON that
\* has no contact member.
C36_Claim ==
    \A p \in Procs :
        ( /\ loc[p].service \in {"Create", "Get", "Update", "Upsert"}
          /\ Done(p) /\ loc[p].ret = NoErr ) => loc[p].contact # "nil"

====
